---------------------------- MODULE Spec2Model ----------------------------
(***************************************************************************)
(* Autocomplete engine (backend package): normalizer, one-edit scorer,     *)
(* word-prefix index, query augmenter, and the Engine orchestration        *)
(* (build / load / complete / shutdown).                                   *)
(*                                                                         *)
(* Strings are sequences of one-character strings.  Python indices are     *)
(* 0-based; the operators below keep the 0-based values the code returns   *)
(* (start_in_S, norm_to_orig entries) and translate to 1-based sequence    *)
(* positions internally.  Python's None is the empty tuple << >> where a   *)
(* tuple is expected and 0 where a 1-based position is expected.           *)
(***************************************************************************)
EXTENDS Integers, Sequences, FiniteSets, TLC

VARIABLES
    fn_in,                  \* input of the pure function under check (a record)
    fn_out,                 \* its output, << >> before it has been applied
    corpus_files,           \* the files under the corpus root, a list of [path, lines]
    SEARCH_MODE,            \* CFG.SEARCH_MODE: "prefix" or "substring"
    disk,                   \* [acx, cdb]: the ACX file and the CDB file, << >> = absent
    self_index,             \* Engine.index: << >> (None) or << KGramIndex >>
    self_store,             \* Engine._store: << >> (None) or << store >>
    self_in_memory_corpus,  \* Engine._in_memory_corpus: << >> (None) or << sentences >>
    last_call,              \* the most recent Engine call and its outcome
    threads                 \* the complete() calls in flight, one record per caller

fn_vars == <<fn_in, fn_out>>
engine_vars == <<corpus_files, SEARCH_MODE, disk, self_index, self_store,
                 self_in_memory_corpus, last_call>>
vars == <<fn_in, fn_out, corpus_files, SEARCH_MODE, disk, self_index, self_store,
          self_in_memory_corpus, last_call, threads>>

None == << >>
NoCall == [op |-> "none"]

\* the engine part of the state while a pure function is under check
EngineUnused ==
    /\ corpus_files = << >>
    /\ SEARCH_MODE = "prefix"
    /\ disk = [acx |-> None, cdb |-> None]
    /\ self_index = None
    /\ self_store = None
    /\ self_in_memory_corpus = None
    /\ last_call = NoCall
    /\ threads = << >>

---------------------------------------------------------------------------
(* Characters.  CodeOrder lists the characters of the model in code-point  *)
(* order, so Ord is order-isomorphic to Python's str comparison.           *)

Tab == "\t"
Newline == "\n"
Eszett == "U+00DF"      \* LATIN SMALL LETTER SHARP S: isalnum, casefolds to "ss"
IDot == "U+0130"        \* LATIN CAPITAL LETTER I WITH DOT ABOVE: isalnum
CombDot == "U+0307"     \* COMBINING DOT ABOVE: neither isalnum nor isspace

LowerSeq ==
    << "a","b","c","d","e","f","g","h","i","j","k","l","m",
       "n","o","p","q","r","s","t","u","v","w","x","y","z" >>
UpperSeq == << "A","B","T" >>
DigitSeq == << "0","1","2","3","4","5","6","7","8","9" >>

CodeOrder ==
    << Tab, Newline, " ", ",", "." >> \o DigitSeq \o << ":" >> \o UpperSeq \o << "_" >>
        \o LowerSeq \o << Eszett, IDot, CombDot, "U+FFFF" >>

Range(f) == { f[i] : i \in DOMAIN f }

Ord(c) == CHOOSE i \in 1..Len(CodeOrder) : CodeOrder[i] = c

IsSpace(c) == c \in {Tab, Newline, " "}
IsLower(c) == c \in Range(LowerSeq)
IsUpper(c) == c \in Range(UpperSeq)
IsDigit(c) == c \in Range(DigitSeq)
IsAlpha(c) == IsLower(c) \/ IsUpper(c) \/ c \in {Eszett, IDot}
IsAlnum(c) == IsAlpha(c) \/ IsDigit(c)

\* str.lower() of one character with a one-character lower case (the sharp
\* s is already lower case)
LowerOf(c) ==
    CASE c = "A" -> "a"
      [] c = "B" -> "b"
      [] c = "T" -> "t"
      [] OTHER -> c

\* str.lower() of one character: a string, "i" and the combining dot for the
\* dotted capital I
Lower(c) == IF c = IDot THEN << "i", CombDot >> ELSE << LowerOf(c) >>

\* str.casefold() of one character: a string, two characters for the sharp s
\* and for the dotted capital I
Casefold(c) == IF c = Eszett THEN << "s", "s" >> ELSE Lower(c)

---------------------------------------------------------------------------
(* Python string helpers.                                                  *)

\* s[i:j] for 0 <= i, clamped like a Python slice
Slice(s, i, j) ==
    LET hi == IF j > Len(s) THEN Len(s) ELSE j
    IN  IF i >= hi THEN << >> ELSE SubSeq(s, i + 1, hi)

\* s.find(sub, start): the leftmost 0-based index >= start, or -1
Find(s, sub, start) ==
    LET hits == { i \in start..(Len(s) - Len(sub)) : Slice(s, i, i + Len(sub)) = sub }
    IN  IF hits = {} THEN -1 ELSE CHOOSE i \in hits : \A j \in hits : i <= j

Contains(s, sub) == Find(s, sub, 0) # -1

\* x < y for Python strings (code-point lexicographic order)
RECURSIVE StrLess(_, _)
StrLess(x, y) ==
    IF y = << >> THEN FALSE
    ELSE IF x = << >> THEN TRUE
    ELSE IF Head(x) = Head(y) THEN StrLess(Tail(x), Tail(y))
    ELSE Ord(Head(x)) < Ord(Head(y))

StrLeq(x, y) == x = y \/ StrLess(x, y)

Max(S) == CHOOSE x \in S : \A y \in S : y <= x
Min(S) == CHOOSE x \in S : \A y \in S : x <= y

\* concatenation of a list of lists
RECURSIVE Flatten(_)
Flatten(ss) == IF ss = << >> THEN << >> ELSE Head(ss) \o Flatten(Tail(ss))

\* all strings over alphabet A with length in lo..hi
StringsOver(A, lo, hi) == UNION { [1..n -> A] : n \in lo..hi }

---------------------------------------------------------------------------
(* Penalty tables and the three one-edit detectors (backend/search.py).    *)

\* _replace_penalty: -(_REPLACE.get(pos1, 1))
ReplacePenalty(pos1) ==
    CASE pos1 = 1 -> -5
      [] pos1 = 2 -> -4
      [] pos1 = 3 -> -3
      [] pos1 = 4 -> -2
      [] OTHER -> -1

\* variant: the indel table looked up with the 0-based position
InsdelPenaltyZeroBased(pos1) ==
    CASE pos1 = 1 -> -8
      [] pos1 = 2 -> -6
      [] pos1 = 3 -> -4
      [] OTHER -> -2

\* _insdel_penalty: -(_INSERT_DEL.get(pos1, 2))
InsdelPenalty(pos1) ==
    CASE pos1 = 1 -> -10
      [] pos1 = 2 -> -8
      [] pos1 = 3 -> -6
      [] pos1 = 4 -> -4
      [] OTHER -> -2

\* _hamming_one(q, t), len(q) = len(t): the 1-based position of the single
\* differing character, 0 (None) when there is none or more than one
HammingOne(q, t) ==
    LET diffs == { i \in 1..Len(q) : q[i] # t[i] }
    IN  IF Cardinality(diffs) = 1 THEN CHOOSE i \in diffs : TRUE ELSE 0

\* the while loop of _one_added_in_query: i, j are the 0-based cursors,
\* extra_pos is 0 while None; the result -1 stands for "return None"
RECURSIVE AddedLoop(_, _, _, _, _)
AddedLoop(q, t, i, j, extra_pos) ==
    IF i < Len(q) /\ j < Len(t)
    THEN IF q[i + 1] = t[j + 1]
         THEN AddedLoop(q, t, i + 1, j + 1, extra_pos)
         ELSE IF extra_pos # 0 THEN -1
              ELSE AddedLoop(q, t, i + 1, j, i + 1)
    ELSE IF extra_pos = 0 THEN Len(q) ELSE extra_pos

\* _one_added_in_query(q, t), len(q) = len(t) + 1: 1-based position of the
\* extra query letter, 0 (None) when q is not t plus one letter
OneAddedInQuery(q, t) ==
    LET r == AddedLoop(q, t, 0, 0, 0) IN IF r = -1 THEN 0 ELSE r

RECURSIVE MissingLoop(_, _, _, _, _)
MissingLoop(q, t, i, j, gap_pos) ==
    IF i < Len(q) /\ j < Len(t)
    THEN IF q[i + 1] = t[j + 1]
         THEN MissingLoop(q, t, i + 1, j + 1, gap_pos)
         ELSE IF gap_pos # 0 THEN -1
              ELSE MissingLoop(q, t, i, j + 1, i + 1)
    ELSE IF gap_pos = 0 THEN Len(q) + 1 ELSE gap_pos

\* _one_missing_in_query(q, t), len(q) + 1 = len(t): 1-based position in the
\* query where a letter is missing, 0 (None) when t is not q plus one letter
OneMissingInQuery(q, t) ==
    LET r == MissingLoop(q, t, 0, 0, 0) IN IF r = -1 THEN 0 ELSE r

---------------------------------------------------------------------------
(* The scorer.  A candidate is <<score, start, win_len, start_orig_hint>>. *)

NoMatch == << >>

\* _choose_better(cur, cand)
ChooseBetter(cur, cand) ==
    IF cur = NoMatch THEN cand
    ELSE IF cand[1] > cur[1] THEN cand
    ELSE IF cand[1] = cur[1] /\ cand[4] < cur[4] THEN cand
    ELSE cur

\* s.norm_to_orig[i] if i < len(s.norm_to_orig) else 0
StartOrig(nto, i) == IF i < Len(nto) THEN nto[i + 1] ELSE 0

\* for i in range(0, len(s_norm) - qn + 1): single replacement
RECURSIVE ScanReplace(_, _, _, _, _)
ScanReplace(s_norm, nto, q, i, best) ==
    LET qn == Len(q) IN
    IF i >= Len(s_norm) - qn + 1 THEN best
    ELSE LET pos == HammingOne(q, Slice(s_norm, i, i + qn))
         IN  ScanReplace(s_norm, nto, q, i + 1,
                 IF pos = 0 THEN best
                 ELSE ChooseBetter(best,
                        << 2 * (qn - 1) + ReplacePenalty(pos), i, qn, StartOrig(nto, i) >>))

\* for i in range(0, len(s_norm) - L + 1), L = qn - 1: added letter in query
RECURSIVE ScanAdded(_, _, _, _, _)
ScanAdded(s_norm, nto, q, i, best) ==
    LET L == Len(q) - 1 IN
    IF i >= Len(s_norm) - L + 1 THEN best
    ELSE LET pos == OneAddedInQuery(q, Slice(s_norm, i, i + L))
         IN  ScanAdded(s_norm, nto, q, i + 1,
                 IF pos = 0 THEN best
                 ELSE ChooseBetter(best,
                        << 2 * L + InsdelPenalty(pos), i, L, StartOrig(nto, i) >>))

\* for i in range(0, len(s_norm) - L + 1), L = qn + 1: missing letter in query
RECURSIVE ScanMissing(_, _, _, _, _)
ScanMissing(s_norm, nto, q, i, best) ==
    LET L == Len(q) + 1 IN
    IF i >= Len(s_norm) - L + 1 THEN best
    ELSE LET pos == OneMissingInQuery(q, Slice(s_norm, i, i + L))
         IN  ScanMissing(s_norm, nto, q, i + 1,
                 IF pos = 0 THEN best
                 ELSE ChooseBetter(best,
                        << 2 * Len(q) + InsdelPenalty(pos), i, L, StartOrig(nto, i) >>))

\* the replace, added and missing scans in code order, each starting from
\* the best candidate of the scans before it; the result drops the hint
OneEditBest(s_norm, nto, q_norm) ==
    LET qn == Len(q_norm)
        Result(best) == IF best = NoMatch THEN NoMatch
                        ELSE << best[1], best[2], best[3] >>
        Missing(best) == Result(IF Len(s_norm) >= qn + 1
                                THEN ScanMissing(s_norm, nto, q_norm, 0, best) ELSE best)
        Added(best) == Missing(IF qn >= 2 /\ Len(s_norm) >= qn - 1
                               THEN ScanAdded(s_norm, nto, q_norm, 0, best) ELSE best)
    IN  Added(ScanReplace(s_norm, nto, q_norm, 0, NoMatch))

\* variant: the scorer without the exact-substring fast path
BestMatchNoFastPath(s_norm, nto, q_norm) ==
    IF q_norm = << >> \/ s_norm = << >> THEN NoMatch
    ELSE OneEditBest(s_norm, nto, q_norm)

\* _best_match_in_sentence(s, q_norm): <<score, start, win_len>> or NoMatch
BestMatchInSentence(s_norm, nto, q_norm) ==
    IF q_norm = << >> \/ s_norm = << >> THEN NoMatch
    ELSE LET qn == Len(q_norm)
             Exact(idx) == IF idx # -1 THEN << 2 * qn, idx, qn >>
                           ELSE OneEditBest(s_norm, nto, q_norm)
         IN  Exact(Find(s_norm, q_norm, 0))

---------------------------------------------------------------------------
(* Specification SpecScorer: the scorer as a pure function.  Init draws a  *)
(* normalized query and a normalized sentence text (with the identity      *)
(* norm_to_orig of a line that needed no normalization) from bounded sets, *)
(* or takes one of the documented end-to-end scenarios.                    *)

MaxQLen == 5
MaxSLen == 6
ScorerAlphabet == {"a", "b"}

IdentityMap(s) == [i \in 1..Len(s) |-> i - 1]

InsertText == << "i","n","s","e","r","t"," ","t","e","x","t" >>
Nsert == << "n","s","e","r","t" >>
HelloWorld == << "h","e","l","l","o"," ","w","o","r","l","d" >>
Helpo == << "h","e","l","p","o" >>

ScenarioInputs ==
    { [fn |-> "score", q |-> Nsert, s |-> InsertText, nto |-> IdentityMap(InsertText)],
      [fn |-> "score", q |-> Helpo, s |-> HelloWorld, nto |-> IdentityMap(HelloWorld)] }

ScorerInputs ==
    { [fn |-> "score", q |-> q, s |-> s, nto |-> IdentityMap(s)] :
        q \in StringsOver(ScorerAlphabet, 1, MaxQLen),
        s \in StringsOver(ScorerAlphabet, 0, MaxSLen) }
    \cup ScenarioInputs

NotApplied == [done |-> FALSE, val |-> << >>]

InitScorer ==
    /\ fn_in \in ScorerInputs
    /\ fn_out = NotApplied
    /\ EngineUnused

ScoreSentence ==
    /\ fn_in.fn = "score"
    /\ ~fn_out.done
    /\ fn_out' = [done |-> TRUE,
                  val |-> BestMatchInSentence(fn_in.s, fn_in.nto, fn_in.q)]
    /\ UNCHANGED <<fn_in, engine_vars, threads>>

NextScorer == ScoreSentence

SpecScorer == InitScorer /\ [][NextScorer]_vars

---------------------------------------------------------------------------
(* Properties of the scorer, stated against a declarative description of   *)
(* the one-edit windows with the penalty tables of the design section 4.6. *)

SubPenaltyTable(p) == IF p = 1 THEN -5 ELSE IF p = 2 THEN -4 ELSE IF p = 3 THEN -3
                      ELSE IF p = 4 THEN -2 ELSE -1
IndelPenaltyTable(p) == IF p = 1 THEN -10 ELSE IF p = 2 THEN -8 ELSE IF p = 3 THEN -6
                        ELSE IF p = 4 THEN -4 ELSE -2

DeleteAt(x, p) == SubSeq(x, 1, p - 1) \o SubSeq(x, p + 1, Len(x))

\* every (score, start, window length) of a non-empty window of S that is
\* exactly one edit away from Q
OneEditWindows(Q, S) ==
    LET n == Len(Q) IN
      { << 2 * (n - 1) + SubPenaltyTable(p), i, n >> :
          <<i, p>> \in { <<i, p>> \in (0..(Len(S) - n)) \X (1..n) :
                          LET W == Slice(S, i, i + n)
                          IN  /\ W[p] # Q[p]
                              /\ \A k \in 1..n : k # p => W[k] = Q[k] } }
    \cup
      { << 2 * (n - 1) + IndelPenaltyTable(p), i, n - 1 >> :
          <<i, p>> \in { <<i, p>> \in (0..(Len(S) - (n - 1))) \X (1..n) :
                          /\ n - 1 >= 1
                          /\ DeleteAt(Q, p) = Slice(S, i, i + n - 1) } }
    \cup
      { << 2 * n + IndelPenaltyTable(p), i, n + 1 >> :
          <<i, p>> \in { <<i, p>> \in (0..(Len(S) - (n + 1))) \X (1..(n + 1)) :
                          DeleteAt(Slice(S, i, i + n + 1), p) = Q } }

Scored == fn_out.done /\ fn_in.fn = "score"

\* C3: the scorer returns (2|Q|, leftmost index of Q in S, |Q|) when Q is a
\* substring of S; otherwise it returns none exactly when no window of S is
\* one edit from Q, and else the maximum one-edit score over all windows.
C3_ScorerMaxOverWindows ==
    Scored =>
      LET Q == fn_in.q
          S == fn_in.s
          r == fn_out.val
          scores == { w[1] : w \in OneEditWindows(Q, S) }
      IN  IF Contains(S, Q)
          THEN r = << 2 * Len(Q), Find(S, Q, 0), Len(Q) >>
          ELSE /\ (r = NoMatch) <=> (scores = {})
               /\ r # NoMatch => r[1] = Max(scores)

\* a missing-letter window won although Q is no substring of S
C3_Witness ==
    /\ Scored
    /\ ~Contains(fn_in.s, fn_in.q)
    /\ fn_out.val # NoMatch
    /\ fn_out.val[3] = Len(fn_in.q) + 1

\* C9: among the one-edit windows with the maximum score the scorer returns
\* the one with the earliest start, and among those the longest window.
C9_EarliestThenLongest ==
    (Scored /\ ~Contains(fn_in.s, fn_in.q) /\ fn_out.val # NoMatch) =>
      LET wins == OneEditWindows(fn_in.q, fn_in.s)
          top == { w \in wins : \A v \in wins : v[1] <= w[1] }
          first == Min({ w[2] : w \in top })
          longest == Max({ w[3] : w \in { v \in top : v[2] = first } })
          r == fn_out.val
      IN  r[2] = first /\ r[3] = longest

\* C10 as stated: 'nsert' against 'insert text' is settled by the missing-
\* letter strategy at position 1, score 2*5 + (-10) = 0 (window "insert").
C10_MissingAtPositionOne ==
    (Scored /\ fn_in.q = Nsert /\ fn_in.s = InsertText) => fn_out.val = << 0, 0, 6 >>

\* C10 amended: 'nsert' is an exact substring of 'insert text' at index 1,
\* so the scorer returns the exact match, score 2*5 = 10, window 5.
C10_ExactSubstringWins ==
    (Scored /\ fn_in.q = Nsert /\ fn_in.s = InsertText) => fn_out.val = << 10, 1, 5 >>

C10_Witness == Scored /\ fn_in.q = Nsert /\ fn_in.s = InsertText

---------------------------------------------------------------------------
(* Normalizer (backend/normalize.py).                                      *)

\* _is_word_char(ch): ch.isalnum()
IsWordChar(c) == IsAlnum(c)

\* variant: the loop remembering the last whitespace character of a run
RECURSIVE NormLoopLastSpace(_, _, _, _, _, _)
NormLoopLastSpace(text, orig_i, out, mapping, last_was_space, pending) ==
    IF orig_i >= Len(text) THEN << out, mapping >>
    ELSE LET ch == text[orig_i + 1] IN
         IF IsSpace(ch)
         THEN NormLoopLastSpace(text, orig_i + 1, out, mapping, TRUE, orig_i)
         ELSE IF IsWordChar(ch)
         THEN LET flush == last_was_space /\ out # << >>
                  out1 == IF flush THEN Append(out, " ") ELSE out
                  map1 == IF flush
                          THEN Append(mapping, IF pending # -1 THEN pending ELSE orig_i)
                          ELSE mapping
              IN  NormLoopLastSpace(text, orig_i + 1, out1 \o Casefold(ch),
                                    Append(map1, orig_i), FALSE, -1)
         ELSE NormLoopLastSpace(text, orig_i + 1, out, mapping, last_was_space, pending)

\* the for loop of normalize_and_map over enumerate(text); out is the joined
\* out_chars, pending is -1 while pending_space_orig_index is None
RECURSIVE NormLoop(_, _, _, _, _, _)
NormLoop(text, orig_i, out, mapping, last_was_space, pending) ==
    IF orig_i >= Len(text) THEN << out, mapping >>
    ELSE LET ch == text[orig_i + 1] IN
         IF IsSpace(ch)
         THEN NormLoop(text, orig_i + 1, out, mapping, TRUE,
                       IF pending = -1 THEN orig_i ELSE pending)
         ELSE IF IsWordChar(ch)
         THEN LET flush == last_was_space /\ out # << >>
                  out1 == IF flush THEN Append(out, " ") ELSE out
                  map1 == IF flush
                          THEN Append(mapping, IF pending # -1 THEN pending ELSE orig_i)
                          ELSE mapping
              IN  NormLoop(text, orig_i + 1, out1 \o Casefold(ch),
                           Append(map1, orig_i), FALSE, -1)
         ELSE NormLoop(text, orig_i + 1, out, mapping, last_was_space, pending)

\* normalize_and_map(text): <<normalized, mapping>>
NormalizeAndMap(text) ==
    LET Trim(out, mapping) ==
            IF out # << >> /\ out[Len(out)] = " "
            THEN << SubSeq(out, 1, Len(out) - 1), SubSeq(mapping, 1, Len(mapping) - 1) >>
            ELSE << out, mapping >>
        Result(r) == Trim(r[1], r[2])
    IN  Result(NormLoop(text, 0, << >>, << >>, FALSE, -1))

\* a normalize_only that only casefolds and keeps every character
NormalizeOnlyKeepAll(text) ==
    Flatten([ i \in DOMAIN text |-> Casefold(text[i]) ])

\* normalize_only(text)
NormalizeOnly(text) == NormalizeAndMap(text)[1]

\* kgrams(s, k): the distinct k-grams of s
KGrams(s, k) ==
    IF k <= 0 \/ Len(s) < k THEN {}
    ELSE { Slice(s, i, i + k) : i \in 0..(Len(s) - k) }

---------------------------------------------------------------------------
(* Loader (backend/loader.py), line units.  A file is [path, lines].       *)

\* _yield_line_units(lines, path_rel, start_id)
YieldLineUnits(lines, path_rel, start_id) ==
    LET Sentence(i, nm) ==
            [ id |-> start_id + i - 1,
              path |-> path_rel,
              line_no |-> i - 1,
              original |-> lines[i],
              normalized |-> nm[1],
              norm_to_orig |-> nm[2] ]
    IN  [ i \in 1..Len(lines) |-> Sentence(i, NormalizeAndMap(lines[i])) ]

\* load_corpus(roots): the sentences of all files, ids running on
RECURSIVE LoadCorpusFrom(_, _)
LoadCorpusFrom(fs, next_id) ==
    IF fs = << >> THEN << >>
    ELSE LET Extend(units) == units \o LoadCorpusFrom(Tail(fs), next_id + Len(units))
         IN  Extend(YieldLineUnits(Head(fs).lines, Head(fs).path, next_id))

LoadCorpus(fs) == LoadCorpusFrom(fs, 0)

\* Sentence(sid, path_rel, line_no, original, *normalize_and_map(original))
SentenceOf(sid, path_rel, line_no, original) ==
    LET Made(nm) ==
            [ id |-> sid, path |-> path_rel, line_no |-> line_no,
              original |-> original, normalized |-> nm[1], norm_to_orig |-> nm[2] ]
    IN  Made(NormalizeAndMap(original))

\* "\n".join(block)
RECURSIVE JoinNewline(_)
JoinNewline(block) ==
    IF block = << >> THEN << >>
    ELSE IF Len(block) = 1 THEN block[1]
    ELSE block[1] \o << Newline >> \o JoinNewline(Tail(block))

\* raw.strip() == ""
IsBlankLine(raw) == \A i \in DOMAIN raw : IsSpace(raw[i])

\* the loop of _yield_paragraph_units from line i (0-based) on, and the
\* flush of the last block after it
RECURSIVE ParagraphLoop(_, _, _, _, _, _)
ParagraphLoop(lines, i, block, block_start_line, path_rel, sid) ==
    IF i >= Len(lines)
    THEN IF block # << >>
         THEN << SentenceOf(sid, path_rel, block_start_line, JoinNewline(block)) >>
         ELSE << >>
    ELSE IF IsBlankLine(lines[i + 1])
    THEN IF block # << >>
         THEN << SentenceOf(sid, path_rel, block_start_line, JoinNewline(block)) >>
                 \o ParagraphLoop(lines, i + 1, << >>, i + 1, path_rel, sid + 1)
         ELSE ParagraphLoop(lines, i + 1, block, i + 1, path_rel, sid)
    ELSE ParagraphLoop(lines, i + 1, Append(block, lines[i + 1]),
                       IF block = << >> THEN i ELSE block_start_line, path_rel, sid)

\* _yield_paragraph_units(lines, path_rel, start_id)
YieldParagraphUnits(lines, path_rel, start_id) ==
    ParagraphLoop(lines, 0, << >>, 0, path_rel, start_id)

\* the while loop of _yield_window_units from line i (0-based) on
RECURSIVE WindowLoop(_, _, _, _, _, _)
WindowLoop(lines, i, size, step, path_rel, sid) ==
    IF i + size > Len(lines) THEN << >>
    ELSE << SentenceOf(sid, path_rel, i, JoinNewline(Slice(lines, i, i + size))) >>
             \o WindowLoop(lines, i + step, size, step, path_rel, sid + 1)

\* _yield_window_units(lines, path_rel, start_id, size, step)
YieldWindowUnits(lines, path_rel, start_id, size, step) ==
    WindowLoop(lines, 0, Max({1, size}), Max({1, step}), path_rel, start_id)

\* config.py, as bound into loader.py by its from-import
TEXT_UNIT == "line"
WINDOW_SIZE == 3
WINDOW_STEP == 1

\* the per-file loop of load_corpus for the resolved unit, wsize and wstep
RECURSIVE LoadUnitsFrom(_, _, _, _, _)
LoadUnitsFrom(fs, next_id, unit, wsize, wstep) ==
    IF fs = << >> THEN << >>
    ELSE LET Extend(units) ==
                 units \o LoadUnitsFrom(Tail(fs), next_id + Len(units), unit, wsize, wstep)
         IN  Extend(CASE unit = "paragraph" ->
                            YieldParagraphUnits(Head(fs).lines, Head(fs).path, next_id)
                      [] unit = "window" ->
                            YieldWindowUnits(Head(fs).lines, Head(fs).path, next_id,
                                             wsize, wstep)
                      [] OTHER -> YieldLineUnits(Head(fs).lines, Head(fs).path, next_id))

\* load_corpus(roots, unit, window_size, window_step); an argument is
\* << >> (None) or << value >>, None selects the loader's own TEXT_UNIT,
\* WINDOW_SIZE, WINDOW_STEP; unit names are given in lower case
LoadCorpusWith(fs, unit, window_size, window_step) ==
    LoadUnitsFrom(fs, 0,
                  IF unit = None THEN TEXT_UNIT ELSE unit[1],
                  IF window_size = None THEN WINDOW_SIZE ELSE window_size[1],
                  IF window_step = None THEN WINDOW_STEP ELSE window_step[1])

---------------------------------------------------------------------------
(* Index structures.                                                       *)

\* sorted(strings): ascending sequence of the members of a set of strings
RECURSIVE SortedStrings(_)
SortedStrings(S) ==
    IF S = {} THEN << >>
    ELSE LET m == CHOOSE x \in S : \A y \in S : StrLeq(x, y)
         IN  << m >> \o SortedStrings(S \ {m})

\* sorted(set(ids)) replaced by a list in descending order
RECURSIVE UnsortedInts(_)
UnsortedInts(S) ==
    IF S = {} THEN << >>
    ELSE LET m == Max(S) IN << m >> \o UnsortedInts(S \ {m})

\* sorted(ints)
RECURSIVE SortedInts(_)
SortedInts(S) ==
    IF S = {} THEN << >>
    ELSE LET m == Min(S) IN << m >> \o SortedInts(S \ {m})

\* BST.from_pairs over the buckets of KGramIndex.build: sorted keys and,
\* per key, the ascending list of ids of the sentences containing the gram
BstFromCorpus(sentences, k) ==
    LET grams == UNION { KGrams(sentences[i].normalized, k) : i \in DOMAIN sentences }
        keys == SortedStrings(grams)
    IN  [ keys |-> keys,
          postings |-> [ j \in DOMAIN keys |->
                           SortedInts({ sentences[i].id : i \in
                               { i \in DOMAIN sentences :
                                   keys[j] \in KGrams(sentences[i].normalized, k) } }) ] ]

\* re \w in a str pattern: alphanumerics and the underscore
IsReWord(c) == IsAlnum(c) \/ c = "_"

\* re.findall(r"\w+", s): the maximal runs of word characters, in order
RECURSIVE TokensFrom(_, _, _)
TokensFrom(s, i, cur) ==
    IF i > Len(s) THEN (IF cur = << >> THEN << >> ELSE << cur >>)
    ELSE IF IsReWord(s[i]) THEN TokensFrom(s, i + 1, Append(cur, s[i]))
    ELSE (IF cur = << >> THEN << >> ELSE << cur >>) \o TokensFrom(s, i + 1, << >>)

Tokens(s) == TokensFrom(s, 1, << >>)

\* _build_word_prefix_index: postings[term] lists (sid, token position) in
\* sentence order, the lexicon is the sorted list of terms
TermPostings(sentences, term) ==
    LET perSentence(i) ==
            LET toks == Tokens(sentences[i].normalized)
            IN  SelectSeq([ t \in DOMAIN toks |-> << i - 1, t - 1, toks[t] >> ],
                          LAMBDA e : e[3] = term)
        RECURSIVE Cat(_)
        Cat(i) == IF i > Len(sentences) THEN << >> ELSE perSentence(i) \o Cat(i + 1)
        all == Cat(1)
    IN  [ j \in DOMAIN all |-> << all[j][1], all[j][2] >> ]

BuildWordPrefixIndex(sentences) ==
    LET terms == UNION { Range(Tokens(sentences[i].normalized)) : i \in DOMAIN sentences }
    IN  [ term_lex |-> SortedStrings(terms),
          postings |-> [ t \in terms |-> TermPostings(sentences, t) ] ]

---------------------------------------------------------------------------
(* Prefix-mode helpers (backend/search.py).                                *)

\* _clean(s): lower-case, keep only the characters matching [a-z ]
Clean(s) == SelectSeq(Flatten([ i \in DOMAIN s |-> Lower(s[i]) ]),
                      LAMBDA c : IsLower(c) \/ c = " ")

\* _p_incorrect(pos)
PIncorrect(pos) ==
    CASE pos = 1 -> -5 [] pos = 2 -> -4 [] pos = 3 -> -3 [] pos = 4 -> -2 [] OTHER -> -1

\* _p_addmiss(pos)
PAddmiss(pos) ==
    CASE pos = 1 -> -10 [] pos = 2 -> -8 [] pos = 3 -> -6 [] pos = 4 -> -4 [] OTHER -> -2

\* score_prefix_1edit(query_raw, target_raw): <<score>>, or << >> for None
ScorePrefix1Edit(query_raw, target_raw) ==
    LET Score(q, t) ==
            LET L == IF Len(q) < Len(t) THEN Len(q) ELSE Len(t)
                base == 2 * L
                Replaced(diffs) ==
                    IF diffs = {} THEN << base >>
                    ELSE IF Cardinality(diffs) = 1 THEN << base + PIncorrect(Min(diffs)) >>
                    ELSE << >>
            IN  IF Len(q) = Len(t)
                THEN Replaced({ i \in 1..Len(q) : q[i] # t[i] })
                ELSE IF Len(q) - Len(t) \in {1, -1}
                     \* the while loop stops at the first divergence, 0-based i
                THEN << base + PAddmiss(Max({ i \in 0..L : \A j \in 1..i : q[j] = t[j] }) + 1) >>
                ELSE << >>
    IN  Score(Clean(query_raw), Clean(target_raw))

\* " ".join(tokens)
RECURSIVE JoinSpace(_)
JoinSpace(toks) ==
    IF toks = << >> THEN << >>
    ELSE IF Len(toks) = 1 THEN toks[1]
    ELSE toks[1] \o << " " >> \o JoinSpace(Tail(toks))

\* \b before a word character at 0-based index p of s
WordStartAt(s, p) == p < Len(s) /\ IsReWord(s[p + 1]) /\ (p = 0 \/ ~IsReWord(s[p]))

\* the end (exclusive, 0-based) of the run of word characters from index p on
WordEndFrom(s, p) ==
    Min({ e \in p..Len(s) : e = Len(s) \/ ~IsReWord(s[e + 1]) })

\* length of the whitespace run starting at 0-based index p
SpaceRunFrom(s, p) ==
    Min({ e \in p..Len(s) : e = Len(s) \/ ~IsSpace(s[e + 1]) }) - p

\* where the token sequence toks (separated by \s+) ends when matched at
\* 0-based index p of s, or -1; every token must be matched in full
RECURSIVE MatchTokensAt(_, _, _)
MatchTokensAt(s, p, toks) ==
    IF Slice(s, p, p + Len(toks[1])) # toks[1] THEN -1
    ELSE LET e == p + Len(toks[1]) IN
         IF Len(toks) = 1 THEN e
         ELSE LET sp == SpaceRunFrom(s, e)
              IN  IF sp = 0 THEN -1 ELSE MatchTokensAt(s, e + sp, Tail(toks))

\* _compile_prefix_pattern(query_norm, trailing_space).search(s): the span
\* <<start, end>> of the leftmost match, << >> when there is none.
\*   no tokens           $a                  never matches
\*   trailing space      \b t1 \s+ .. tn \s+ \w+
\*   otherwise           \b t1 \s+ .. tn \w*
PatternSearch(query_norm, trailing_space, s) ==
    LET Search(toks) ==
            LET Tail1(e, sp) ==
                    IF sp > 0 /\ e + sp < Len(s) /\ IsReWord(s[e + sp + 1])
                    THEN WordEndFrom(s, e + sp) ELSE -1
                After(e) ==
                    IF e = -1 THEN -1
                    ELSE IF trailing_space THEN Tail1(e, SpaceRunFrom(s, e))
                    ELSE WordEndFrom(s, e)
                endAt(p) == After(MatchTokensAt(s, p, toks))
                Leftmost(ends) ==
                    IF ends = {} THEN << >>
                    ELSE CHOOSE m \in ends : \A n \in ends : m[1] <= n[1]
            IN  IF toks = << >> THEN << >>
                ELSE Leftmost({ m \in { << p, endAt(p) >> :
                                          p \in { p \in 0..(Len(s) - 1) : WordStartAt(s, p) } } :
                                  m[2] # -1 })
    IN  Search(Tokens(query_norm))

\* re.search(rf"\b{pfx}\w*", sub): span of the leftmost word of sub that
\* starts with pfx, << >> when there is none
PrefixWordSearch(pfx, sub) ==
    LET At(p) == << p, WordEndFrom(sub, p + Len(pfx)) >>
        Leftmost(starts) == IF starts = {} THEN << >> ELSE At(Min(starts))
    IN  Leftmost({ p \in 0..(Len(sub) - 1) :
                     WordStartAt(sub, p) /\ Slice(sub, p, p + Len(pfx)) = pfx })

\* _orig_span_from_norm(sentence, n_s, n_e): <<o_s, o_e>>; nto is non-empty
OrigSpanFromNorm(original, nto, n_s, n_e) ==
    LET last == IF n_e - 1 < Len(nto) - 1 THEN n_e - 1 ELSE Len(nto) - 1
    IN  << IF n_s >= Len(nto) THEN Len(original) ELSE nto[n_s + 1],
           IF n_e <= 0 THEN 0 ELSE nto[last + 1] + 1 >>

\* _ONLY_WORDCHARS.match(chunk): ^[A-Za-z0-9_]+$
OnlyWordChars(chunk) ==
    /\ chunk # << >>
    /\ \A i \in DOMAIN chunk :
          IsLower(chunk[i]) \/ IsUpper(chunk[i]) \/ IsDigit(chunk[i]) \/ chunk[i] = "_"

---------------------------------------------------------------------------
(* Query augmentation and word-prefix candidates.  An index is a record    *)
(* [bst, term_lex, postings, num_sentences]; postings is a function on the *)
(* set of terms.                                                           *)

\* the binary search of bisect.bisect_left over L[lo:hi]
RECURSIVE BisectLeftLoop(_, _, _, _)
BisectLeftLoop(L, x, lo, hi) ==
    IF lo >= hi THEN lo
    ELSE IF StrLess(L[((lo + hi) \div 2) + 1], x)
         THEN BisectLeftLoop(L, x, ((lo + hi) \div 2) + 1, hi)
         ELSE BisectLeftLoop(L, x, lo, (lo + hi) \div 2)

\* bisect.bisect_left(L, x) on a list of strings
BisectLeft(L, x) == BisectLeftLoop(L, x, 0, Len(L))

RECURSIVE BisectRightLoop(_, _, _, _)
BisectRightLoop(L, x, lo, hi) ==
    IF lo >= hi THEN lo
    ELSE IF StrLess(x, L[((lo + hi) \div 2) + 1])
         THEN BisectRightLoop(L, x, lo, (lo + hi) \div 2)
         ELSE BisectRightLoop(L, x, ((lo + hi) \div 2) + 1, hi)

\* bisect.bisect_right(L, x)
BisectRight(L, x) == BisectRightLoop(L, x, 0, Len(L))

\* len(postings[term]) when the term is known, else 0
TermFreq(postings, term) == IF term \in DOMAIN postings THEN Len(postings[term]) ELSE 0

\* within_1_edit(a, b) of augment_query: <<ok, penalty>>
Within1Edit(a, b) ==
    IF a = b THEN << TRUE, 0 >>
    ELSE IF Len(a) - Len(b) > 1 \/ Len(b) - Len(a) > 1 THEN << FALSE, 0 >>
    ELSE LET Replaced(pos) == IF pos # 0 THEN << TRUE, ReplacePenalty(pos) >>
                              ELSE << FALSE, 0 >>
             Indel(pos) == IF pos # 0 THEN << TRUE, InsdelPenalty(pos) >>
                           ELSE << FALSE, 0 >>
         IN  IF Len(a) = Len(b) THEN Replaced(HammingOne(a, b))
             ELSE IF Len(a) = Len(b) + 1 THEN Indel(OneAddedInQuery(a, b))
             ELSE Indel(OneMissingInQuery(a, b))

BAND == 3000
NoBestPen == -10000

\* choose_range(iterable, alpha_only) for token tok: a fold over the terms
\* keeping <<best_term, best_tf, best_pen>>; best_term << >> is None
RECURSIVE ChooseRangeLoop(_, _, _, _, _, _)
ChooseRangeLoop(terms, i, tok, alpha_only, postings, best) ==
    IF i > Len(terms) THEN best
    ELSE LET tok_has_alpha == \E j \in DOMAIN tok : IsLower(tok[j])
             skip(term) ==
                 \/ Len(term) < Len(tok) - 1 \/ Len(term) > Len(tok) + 1
                 \/ (alpha_only /\ ~(\A j \in DOMAIN term : IsAlpha(term[j])))
                 \/ (tok_has_alpha /\ \E j \in DOMAIN term : IsDigit(term[j]))
             better(term, tf, pen) ==
                 \/ best[1] = << >>
                 \/ tf > best[2]
                 \/ (tf = best[2] /\ pen > best[3])
                 \/ (tf = best[2] /\ pen = best[3] /\ StrLess(term, best[1]))
             Step(term, w, tf) ==
                 IF skip(term) \/ ~w[1] THEN best
                 ELSE IF better(term, tf, w[2]) THEN << term, tf, w[2] >> ELSE best
         IN  ChooseRangeLoop(terms, i + 1, tok, alpha_only, postings,
                 Step(terms[i], Within1Edit(tok, terms[i]), TermFreq(postings, terms[i])))

ChooseRange(terms, tok, alpha_only, postings) ==
    LET Result(b) == << b[1], b[3] >>
    IN  Result(ChooseRangeLoop(terms, 1, tok, alpha_only, postings,
                               << << >>, -1, NoBestPen >>))

\* the body of the token loop of augment_query: <<orig, corrected, penalty>>
CorrectToken(tok, L, postings) ==
    LET tok_has_alpha == \E j \in DOMAIN tok : IsLower(tok[j])
        tok_has_digit == \E j \in DOMAIN tok : IsDigit(tok[j])
        \* choose_range(terms, alpha_only=True) first when alpha_first, then
        \* choose_range(terms, alpha_only=False) if that found nothing
        Choose(terms, alpha_first) ==
            LET Pass(alpha_only) == ChooseRange(terms, tok, alpha_only, postings)
                OrElse(found) == IF found[1] # << >> THEN found ELSE Pass(FALSE)
            IN  OrElse(Pass(alpha_first))
        Entry(best) == IF best[1] = << >> THEN << tok, tok, 0 >>
                       ELSE << tok, best[1], best[2] >>
        Global(local) == Entry(IF local[1] = << >> /\ tok_has_digit /\ tok_has_alpha
                               THEN Choose(L, TRUE) ELSE local)
        At(i) ==
            IF i < Len(L) /\ L[i + 1] = tok THEN << tok, tok, 0 >>
            ELSE Global(Choose(Slice(L, IF i - BAND > 0 THEN i - BAND ELSE 0,
                                        IF i + BAND < Len(L) THEN i + BAND ELSE Len(L)),
                               tok_has_alpha))
    IN  At(BisectLeft(L, tok))

RECURSIVE SumPenalties(_)
SumPenalties(token_map) ==
    IF token_map = << >> THEN 0 ELSE Head(token_map)[3] + SumPenalties(Tail(token_map))

EndsWithSpace(s) == s # << >> /\ s[Len(s)] = " "

\* augment_query(query_raw, index)
AugmentQuery(query_raw, index) ==
    LET Result(trailing_space, token_map) ==
            [ corrected |-> JoinSpace([ t \in DOMAIN token_map |-> token_map[t][2] ])
                               \o (IF trailing_space THEN << " " >> ELSE << >>),
              total_penalty |-> SumPenalties(token_map),
              token_map |-> token_map,
              trailing_space |-> trailing_space ]
        Augment(trailing_space, toks) ==
            IF toks = << >>
            THEN [ corrected |-> query_raw, total_penalty |-> 0, token_map |-> << >>,
                   trailing_space |-> trailing_space ]
            ELSE Result(trailing_space,
                        [ t \in DOMAIN toks |->
                            CorrectToken(toks[t], index.term_lex, index.postings) ])
    IN  Augment(EndsWithSpace(query_raw), Tokens(NormalizeOnly(query_raw)))

\* within_1_edit(a, b) local to candidates_for_prefix_query
RECURSIVE TolerantLoop(_, _, _, _, _)
TolerantLoop(a, b, i, j, diff) ==
    IF i < Len(a) /\ j < Len(b)
    THEN IF a[i + 1] = b[j + 1] THEN TolerantLoop(a, b, i + 1, j + 1, diff)
         ELSE IF diff + 1 > 1 THEN FALSE ELSE TolerantLoop(a, b, i, j + 1, diff + 1)
    ELSE TRUE

TolerantWithin1Edit(a, b) ==
    IF a = b THEN TRUE
    ELSE IF Len(a) - Len(b) > 1 \/ Len(b) - Len(a) > 1 THEN FALSE
    ELSE IF Len(a) = Len(b) THEN Cardinality({ i \in DOMAIN a : a[i] # b[i] }) = 1
    ELSE IF Len(a) > Len(b) THEN TolerantLoop(b, a, 0, 0, 0)
    ELSE TolerantLoop(a, b, 0, 0, 0)

TopChar == "U+FFFF"
NEIGHBOURHOOD == 2000

\* the neighbour scan: append one-edit terms not yet listed, stop once the
\* list holds max_terms terms
RECURSIVE ExpandTerms(_, _, _, _, _)
ExpandTerms(window, i, last, last_terms, max_terms) ==
    IF i > Len(window) THEN last_terms
    ELSE LET t == window[i] IN
         IF TolerantWithin1Edit(last, t) /\ t \notin Range(last_terms)
         THEN (IF Len(last_terms) + 1 >= max_terms THEN Append(last_terms, t)
               ELSE ExpandTerms(window, i + 1, last, Append(last_terms, t), max_terms))
         ELSE ExpandTerms(window, i + 1, last, last_terms, max_terms)

\* the terms whose postings candidates_for_prefix_query unions, in order
PrefixQueryTerms(last, L, max_terms) ==
    LET lo == BisectLeft(L, last)
        hi0 == BisectRight(L, Append(last, TopChar))
        hi == IF hi0 - lo > max_terms THEN lo + max_terms ELSE hi0
        w_lo == IF lo - NEIGHBOURHOOD > 0 THEN lo - NEIGHBOURHOOD ELSE 0
        w_hi == IF hi + NEIGHBOURHOOD < Len(L) THEN hi + NEIGHBOURHOOD ELSE Len(L)
    IN  ExpandTerms(Slice(L, w_lo, w_hi), 1, last, Slice(L, lo, hi), max_terms)

\* the aggregation loops: sids in the order they are met, cut off as soon
\* as the set holds max_candidates ids
RECURSIVE CollectSids(_, _, _)
CollectSids(pairs, hits, max_candidates) ==
    IF pairs = << >> THEN hits
    ELSE LET h == hits \cup { Head(pairs)[1] }
         IN  IF Cardinality(h) >= max_candidates THEN h
             ELSE CollectSids(Tail(pairs), h, max_candidates)

RECURSIVE ConcatPostings(_, _)
ConcatPostings(terms, postings) ==
    IF terms = << >> THEN << >>
    ELSE (IF Head(terms) \in DOMAIN postings THEN postings[Head(terms)] ELSE << >>)
         \o ConcatPostings(Tail(terms), postings)

\* candidates_for_prefix_query(query, max_terms, max_candidates): a set of ids
CandidatesForPrefixQuery(index, query, max_terms, max_candidates) ==
    LET q_toks == Tokens(query) IN
    IF q_toks = << >> THEN {}
    ELSE LET last_terms == PrefixQueryTerms(q_toks[Len(q_toks)], index.term_lex, max_terms)
         IN  CollectSids(ConcatPostings(last_terms, index.postings), {}, max_candidates)

---------------------------------------------------------------------------
(* complete_query (backend/search.py).  A store is a function from the ids *)
(* it holds to Sentence records.  The outcome of a call is                 *)
(* [raised, rows]; rows is the returned list.                              *)

GRAM == 3
\* config.MAX_CANDIDATES, the cap on candidate ids per query: 15,000 in
\* config.py, scaled down here so that the corpora of the model exceed it
MAX_CANDIDATES == 2
MAX_PREFIX_TERMS == 5000
MAX_PREFIX_CANDIDATES == 20000

\* range(n) as a list
RangeSeq(n) == [ i \in 1..n |-> i - 1 ]

\* variant: rows.sort(key=score) without reverse=True
RECURSIVE InsertByScoreAscending(_, _)
InsertByScoreAscending(sorted, r) ==
    IF sorted = << >> THEN << r >>
    ELSE IF Head(sorted).score <= r.score
         THEN << Head(sorted) >> \o InsertByScoreAscending(Tail(sorted), r)
         ELSE << r >> \o sorted

RECURSIVE SortRowsAscending(_)
SortRowsAscending(rows) ==
    IF rows = << >> THEN << >>
    ELSE InsertByScoreAscending(SortRowsAscending(SubSeq(rows, 1, Len(rows) - 1)),
                                rows[Len(rows)])

\* insert r behind every row whose score is >= r.score (stable)
RECURSIVE InsertByScore(_, _)
InsertByScore(sorted, r) ==
    IF sorted = << >> THEN << r >>
    ELSE IF Head(sorted).score >= r.score
         THEN << Head(sorted) >> \o InsertByScore(Tail(sorted), r)
         ELSE << r >> \o sorted

\* rows.sort(key=lambda r: r["score"], reverse=True): stable, by score only
RECURSIVE SortRows(_)
SortRows(rows) ==
    IF rows = << >> THEN << >>
    ELSE InsertByScore(SortRows(SubSeq(rows, 1, Len(rows) - 1)), rows[Len(rows)])

\* rows[:top_k] for top_k >= 0
TopRows(rows, top_k) == Slice(rows, 0, top_k)

\* rows.sort(...); return rows[:top_k] over the rows a loop collected
SortAndCut(found, top_k) ==
    [raised |-> found.raised, rows |-> TopRows(SortRows(found.rows), top_k)]

\* the row complete_query_substring appends for sentence s, << >> for none
SubstringHit(s, q_norm) ==
    LET Row(best) ==
            IF best = NoMatch THEN << >>
            ELSE << [ score |-> best[1],
                      offset |-> << best[2], best[2] + best[3] >>,
                      source_text |-> s.path,
                      completed_sentence |-> s.original ] >>
    IN  Row(BestMatchInSentence(s.normalized, s.norm_to_orig, q_norm))

\* the row the prefix loop of complete_query appends for sentence s
PrefixHit(s, query, aug) ==
    LET Row(start, end, sc) ==
            IF sc = << >> THEN << >>
            ELSE << [ score |-> sc[1],
                      offset |-> << start, end >>,
                      source_text |-> s.path,
                      completed_sentence |-> s.original,
                      query_original |-> query,
                      query_corrected |-> aug.corrected ] >>
        Guarded(start, end, span) ==
            IF ~OnlyWordChars(Slice(s.original, span[1], span[2])) THEN << >>
            ELSE Row(start, end, ScorePrefix1Edit(query, Slice(s.original, start, end)))
        Completed(start, end, m2) ==
            IF m2 = << >> THEN << >>
            ELSE Guarded(start, end,
                         OrigSpanFromNorm(s.original, s.norm_to_orig,
                                          start + m2[1], start + m2[2]))
        LastWord(toks, start, sub) ==
            IF aug.trailing_space THEN PrefixWordSearch(<< >>, sub)
            ELSE IF Len(toks) = 1
                 THEN << 0, WordEndFrom(s.normalized, start) - start >>
            ELSE PrefixWordSearch(toks[Len(toks)], sub)
        Matched(toks, m) ==
            IF m = << >> THEN << >>
            ELSE Completed(m[1], m[2],
                           LastWord(toks, m[1], Slice(s.normalized, m[1], m[2])))
        Hit(q_corr_norm) ==
            Matched(Tokens(q_corr_norm),
                    PatternSearch(q_corr_norm, aug.trailing_space, s.normalized))
    IN  Hit(NormalizeOnly(aug.corrected))

\* index.iter_sentences(ids): the sentences in the given order; the getter
\* (store.read) raises KeyError for an id the store does not hold
RECURSIVE IterSentences(_, _)
IterSentences(ids, store) ==
    IF ids = << >> THEN [raised |-> FALSE, sents |-> << >>]
    ELSE IF Head(ids) \notin DOMAIN store THEN [raised |-> TRUE, sents |-> << >>]
    ELSE LET rest == IterSentences(Tail(ids), store)
         IN  IF rest.raised THEN rest
             ELSE [raised |-> FALSE, sents |-> << store[Head(ids)] >> \o rest.sents]

\* the rows complete_query_substring collects before it sorts: [raised, rows]
SubstringRows(query, index, store) ==
    LET Rows(q_norm, got) ==
            IF q_norm = << >> THEN [raised |-> FALSE, rows |-> << >>]
            ELSE IF got.raised THEN [raised |-> TRUE, rows |-> << >>]
            ELSE [raised |-> FALSE,
                  rows |-> Flatten([ i \in DOMAIN got.sents |->
                                       SubstringHit(got.sents[i], q_norm) ])]
    IN  Rows(NormalizeOnly(query), IterSentences(RangeSeq(index.num_sentences), store))

\* complete_query_substring(query, index, top_k)
CompleteQuerySubstring(query, index, store, top_k) ==
    SortAndCut(SubstringRows(query, index, store), top_k)

\* the candidate ids of the prefix path, in iteration order: the id set in
\* ascending order (CPython iterates a set of small ints in slot order), or
\* every id when a corrected query found no candidate
PrefixCandidates(query, index, aug) ==
    LET Ids(q_corr_norm, cand) ==
            IF cand = {} /\ q_corr_norm # NormalizeOnly(query)
            THEN RangeSeq(index.num_sentences)
            ELSE SortedInts(cand)
        From(q_corr_norm) ==
            Ids(q_corr_norm, CandidatesForPrefixQuery(index, q_corr_norm,
                                 MAX_PREFIX_TERMS, MAX_PREFIX_CANDIDATES))
    IN  From(NormalizeOnly(aug.corrected))

\* the rows the prefix path of complete_query collects before it sorts
PrefixRows(query, index, store) ==
    LET Rows(aug, got) ==
            IF got.raised THEN [raised |-> TRUE, rows |-> << >>]
            ELSE [raised |-> FALSE,
                  rows |-> Flatten([ i \in DOMAIN got.sents |->
                                       PrefixHit(got.sents[i], query, aug) ])]
        With(aug) == Rows(aug, IterSentences(PrefixCandidates(query, index, aug), store))
    IN  With(AugmentQuery(query, index))

\* complete_query(query, index, top_k), mode is CFG.SEARCH_MODE
CompleteQuery(query, index, store, top_k, mode) ==
    IF mode # "prefix" THEN CompleteQuerySubstring(query, index, store, top_k)
    ELSE SortAndCut(PrefixRows(query, index, store), top_k)

\* the ids a complete_query call hands to index.iter_sentences, in order:
\* the sentences it fetches from the store and scores
FetchedIds(query, index, mode) ==
    IF mode # "prefix"
    THEN (IF NormalizeOnly(query) = << >> THEN << >>
          ELSE RangeSeq(index.num_sentences))
    ELSE PrefixCandidates(query, index, AugmentQuery(query, index))

---------------------------------------------------------------------------
(* Persistence: the ACX file of the k-gram index and the CDB sentence file. *)

\* struct.Struct("<H" | "<I" | "<Q").pack(n) for 0 <= n < 256^w: the w
\* little-endian bytes of n
RECURSIVE LEPack(_, _)
LEPack(n, w) == IF w = 0 THEN << >> ELSE << n % 256 >> \o LEPack(n \div 256, w - 1)

\* int.from_bytes(b, "little"); Struct.unpack of a field of full width
RECURSIVE LEUnpack(_)
LEUnpack(b) == IF b = << >> THEN 0 ELSE Head(b) + 256 * LEUnpack(Tail(b))

\* Struct.unpack_from(mm, pos) of a w-byte field: struct.error when fewer
\* than w bytes are left at pos
UnpackFrom(mm, pos, w) ==
    IF pos + w > Len(mm) THEN [raised |-> TRUE, val |-> 0]
    ELSE [raised |-> FALSE, val |-> LEUnpack(Slice(mm, pos, pos + w))]

IndexIn(seq, c) == CHOOSE i \in DOMAIN seq : seq[i] = c

\* ord(c)
CodePoint(c) ==
    CASE c = Tab -> 9
      [] c = Newline -> 10
      [] c = " " -> 32
      [] c = "," -> 44
      [] c = "." -> 46
      [] IsDigit(c) -> 47 + IndexIn(DigitSeq, c)
      [] c = ":" -> 58
      [] c = "A" -> 65
      [] c = "B" -> 66
      [] c = "T" -> 84
      [] c = "_" -> 95
      [] IsLower(c) -> 96 + IndexIn(LowerSeq, c)
      [] c = Eszett -> 223
      [] c = IDot -> 304
      [] c = CombDot -> 775
      [] OTHER -> 65535

\* chr(cp) for the code points of the model
CharOf(cp) == CHOOSE c \in Range(CodeOrder) : CodePoint(c) = cp

\* the UTF-8 bytes of one code point below 2^16
Utf8Char(cp) ==
    IF cp < 128 THEN << cp >>
    ELSE IF cp < 2048 THEN << 192 + (cp \div 64), 128 + (cp % 64) >>
    ELSE << 224 + (cp \div 4096), 128 + ((cp \div 64) % 64), 128 + (cp % 64) >>

\* str.encode("utf-8")
Utf8Encode(s) == Flatten([ i \in DOMAIN s |-> Utf8Char(CodePoint(s[i])) ])

\* bytes.decode("utf-8"): [raised, str]; UnicodeDecodeError for a lead byte
\* without its continuation bytes
RECURSIVE Utf8Decode(_)
Utf8Decode(b) ==
    IF b = << >> THEN [raised |-> FALSE, str |-> << >>]
    ELSE LET n == IF b[1] < 128 THEN 1
                  ELSE IF b[1] >= 192 /\ b[1] < 224 THEN 2
                  ELSE IF b[1] >= 224 /\ b[1] < 240 THEN 3
                  ELSE 0
             cp == IF n = 1 THEN b[1]
                   ELSE IF n = 2 THEN (b[1] - 192) * 64 + (b[2] - 128)
                   ELSE (b[1] - 224) * 4096 + (b[2] - 128) * 64 + (b[3] - 128)
             Rest(r) == IF r.raised THEN r
                        ELSE [raised |-> FALSE, str |-> << CharOf(cp) >> \o r.str]
         IN  IF n = 0 \/ Len(b) < n \/ (\E j \in 2..n : b[j] < 128 \/ b[j] >= 192)
             THEN [raised |-> TRUE, str |-> << >>]
             ELSE Rest(Utf8Decode(Slice(b, n, Len(b))))

\* the running offsets of ACXWriter.save: offs[i] = sum of the counts before i
RECURSIVE AcxOffsets(_, _)
AcxOffsets(cnts, off) ==
    IF cnts = << >> THEN << >>
    ELSE << off >> \o AcxOffsets(Tail(cnts), off + Head(cnts))

AcxMagic == << 65, 67, 88, 49 >>       \* b"ACX1"

\* the byte strings ACXWriter(k).save(path, items) hands to f.write, in
\* order; items is a list of <<key, id_list>> and is written in the order
\* given
AcxChunks(items, k) ==
    LET Entries(cnts, offs) ==
            Flatten([ i \in DOMAIN items |->
                << << Len(Utf8Encode(items[i][1])) >>, Utf8Encode(items[i][1]),
                   LEPack(offs[i], 4), LEPack(cnts[i], 4) >> ])
        Dir(cnts) == Entries(cnts, AcxOffsets(cnts, 0))
    IN  << AcxMagic, LEPack(k, 4), LEPack(Len(items), 4) >>
        \o Dir([ i \in DOMAIN items |-> Len(items[i][2]) ])
        \o << Flatten([ i \in DOMAIN items |->
                  Flatten([ j \in DOMAIN items[i][2] |-> LEPack(items[i][2][j], 4) ]) ]) >>

\* the bytes of the file ACXWriter(k).save leaves at path
AcxSave(items, k) == Flatten(AcxChunks(items, k))

\* BST.iter_items() of the frozen tree: (key, ids) in sorted-key order
BstIterItems(bst) == [ i \in DOMAIN bst.keys |-> << bst.keys[i], bst.postings[i] >> ]

\* save_acx_from_bst(bst, path)
SaveAcxFromBst(bst, k) == AcxSave(BstIterItems(bst), k)

AcxBroken == [ raised |-> TRUE ]

\* the loop of ACXIndex._parse_header over the n directory entries, reading
\* at pos; acc collects keys, offs and cnts
RECURSIVE AcxParseEntries(_, _, _, _)
AcxParseEntries(mm, pos, n, acc) ==
    IF n = 0 THEN [ acc EXCEPT !.postings_base = pos ]
    ELSE IF pos >= Len(mm) THEN AcxBroken
    ELSE LET ln == mm[pos + 1]
             Entry(key, off, cnt) ==
                 IF key.raised \/ Len(off) < 4 \/ Len(cnt) < 4 THEN AcxBroken
                 ELSE AcxParseEntries(mm, pos + 9 + ln, n - 1,
                          [ acc EXCEPT !.keys = Append(@, key.str),
                                       !.offs = Append(@, LEUnpack(off)),
                                       !.cnts = Append(@, LEUnpack(cnt)) ])
         IN  Entry(Utf8Decode(Slice(mm, pos + 1, pos + 1 + ln)),
                   Slice(mm, pos + 1 + ln, pos + 5 + ln),
                   Slice(mm, pos + 5 + ln, pos + 9 + ln))

\* load_acx(path) = ACXIndex(path) over the bytes mm of the file: keys and
\* metadata parsed, postings read on demand
LoadAcx(mm) ==
    IF Slice(mm, 0, 4) # AcxMagic \/ Len(mm) < 12 THEN AcxBroken
    ELSE AcxParseEntries(mm, 12, LEUnpack(Slice(mm, 8, 12)),
             [ raised |-> FALSE, k |-> LEUnpack(Slice(mm, 4, 8)),
               keys |-> << >>, offs |-> << >>, cnts |-> << >>,
               postings_base |-> 12, mm |-> mm ])

\* ACXIndex.get(key)
AcxGet(acx, key) ==
    LET Ids(mv) == { LEUnpack(Slice(mv, 4 * j, 4 * j + 4)) : j \in 0..((Len(mv) - 1) \div 4) }
        At(i) ==
            IF i = Len(acx.keys) \/ acx.keys[i + 1] # key THEN {}
            ELSE IF acx.cnts[i + 1] = 0 THEN {}
            ELSE Ids(Slice(acx.mm, acx.postings_base + 4 * acx.offs[i + 1],
                           acx.postings_base + 4 * acx.offs[i + 1] + 4 * acx.cnts[i + 1]))
    IN  At(BisectLeft(acx.keys, key))

CdbMagic == << 67, 68, 66, 49 >>       \* b"CDB1"

\* the relative paths of the corpus files as character strings
PathChars(path) ==
    CASE path = "a.txt" -> << "a", ".", "t", "x", "t" >>
      [] path = "b.txt" -> << "b", ".", "t", "x", "t" >>
      [] OTHER -> << "c" >>

\* the path a decoded character string names
PathOf(chars) ==
    IF \E path \in { "a.txt", "b.txt", "c" } : PathChars(path) = chars
    THEN CHOOSE path \in { "a.txt", "b.txt", "c" } : PathChars(path) = chars
    ELSE chars

\* _write_str(f, s) and _write_bytes32(f, b): a length field of w bytes,
\* then the bytes
WriteSized(b, w) == LEPack(Len(b), w) \o b

\* _write_record(f, s); array("I") items are 4 bytes, little-endian
WriteRecord(s) ==
    WriteSized(Utf8Encode(PathChars(s.path)), 2)
    \o LEPack(s.line_no, 4)
    \o WriteSized(Utf8Encode(s.original), 4)
    \o WriteSized(Utf8Encode(s.normalized), 4)
    \o LEPack(Len(s.norm_to_orig), 4)
    \o Flatten([ j \in DOMAIN s.norm_to_orig |-> LEPack(s.norm_to_orig[j], 4) ])

\* the offsets f.tell() returns before each record is written
RECURSIVE RecordOffsets(_, _)
RecordOffsets(records, off) ==
    IF records = << >> THEN << >>
    ELSE << off >> \o RecordOffsets(Tail(records), off + Len(Head(records)))

\* the number of write steps of build_from_corpus on the temporary file:
\* magic, count, placeholder table, one per record, one per table entry
CdbWriteSteps(sentences) == 3 + 2 * Len(sentences)

\* the bytes of the temporary file of CorpusDB.build_from_corpus after the
\* first step write steps; the ids of a corpus are distinct
CdbTmpAt(sentences, step) ==
    LET ids == SortedInts({ sentences[i].id : i \in DOMAIN sentences })
        M == Len(sentences)
        item(j) == sentences[CHOOSE i \in DOMAIN sentences : sentences[i].id = ids[j]]
        nrec == IF step - 3 < 0 THEN 0 ELSE IF step - 3 > M THEN M ELSE step - 3
        ntab == IF step - 3 - M < 0 THEN 0 ELSE step - 3 - M
        File(records, offsets) ==
            (IF step >= 1 THEN CdbMagic ELSE << >>)
            \o (IF step >= 2 THEN LEPack(M, 4) ELSE << >>)
            \o (IF step >= 3
                THEN Flatten([ j \in 1..ntab |->
                                 LEPack(ids[j], 4) \o LEPack(offsets[j], 8) ])
                     \o [ z \in 1..(12 * (M - ntab)) |-> 0 ]
                ELSE << >>)
            \o Flatten(SubSeq(records, 1, nrec))
        Written(records) == File(records, RecordOffsets(records, 8 + 12 * M))
    IN  Written([ j \in DOMAIN ids |-> WriteRecord(item(j)) ])

\* CorpusDB.build_from_corpus(corpus, path): the bytes of the file that
\* os.replace moves to path
CdbBuildFromCorpus(sentences) == CdbTmpAt(sentences, CdbWriteSteps(sentences))

\* _is_valid_cdb(path): the file exists and starts with the magic
IsValidCdb(file) == file # None /\ Slice(file[1], 0, 4) = CdbMagic

\* the loop of CorpusDB._parse_header over the M table entries at pos
RECURSIVE CdbParseTable(_, _, _, _)
CdbParseTable(mm, pos, n, idx) ==
    IF n = 0 THEN [ raised |-> FALSE, idx |-> idx, mm |-> mm ]
    ELSE IF pos + 12 > Len(mm) THEN [ raised |-> TRUE ]
    ELSE CdbParseTable(mm, pos + 12, n - 1,
             [ sid \in DOMAIN idx \cup { LEUnpack(Slice(mm, pos, pos + 4)) } |->
                 IF sid = LEUnpack(Slice(mm, pos, pos + 4))
                 THEN LEUnpack(Slice(mm, pos + 4, pos + 12)) ELSE idx[sid] ])

\* CorpusDB(db_path) over the bytes mm of the file: the table sid -> offset
CdbOpen(mm) ==
    IF Slice(mm, 0, 4) # CdbMagic \/ Len(mm) < 8 THEN [ raised |-> TRUE ]
    ELSE CdbParseTable(mm, 8, LEUnpack(Slice(mm, 4, 8)), << >>)

NoSentence == [ raised |-> TRUE, sentence |-> << >> ]

\* _read_record(mm, off): [raised, sentence].  unpack_from raises when the
\* field is cut short, a slice of mm is silently clamped to the end of the
\* file, array.frombytes raises on a length that is no multiple of 4; the
\* record carries no id, the Sentence is returned with id 0
ReadRecord(mm, off) ==
    LET Make(path, line_no, ob, nb, mbytes) ==
            LET Decoded(o, n) ==
                    IF o.raised \/ n.raised THEN NoSentence
                    ELSE [ raised |-> FALSE,
                           sentence |->
                             [ id |-> 0, path |-> PathOf(path), line_no |-> line_no,
                               original |-> o.str, normalized |-> n.str,
                               norm_to_orig |->
                                 [ j \in 1..(Len(mbytes) \div 4) |->
                                     LEUnpack(Slice(mbytes, 4 * (j - 1), 4 * j)) ] ] ]
            IN  IF Len(mbytes) % 4 # 0 THEN NoSentence
                ELSE Decoded(Utf8Decode(ob), Utf8Decode(nb))
        Mapping(path, line_no, ob, nb, pos, mlen) ==
            IF mlen.raised THEN NoSentence
            ELSE Make(path, line_no, ob, nb, Slice(mm, pos + 4, pos + 4 + 4 * mlen.val))
        Norm(path, line_no, ob, pos, nlen) ==
            IF nlen.raised THEN NoSentence
            ELSE Mapping(path, line_no, ob, Slice(mm, pos + 4, pos + 4 + nlen.val),
                         pos + 4 + nlen.val, UnpackFrom(mm, pos + 4 + nlen.val, 4))
        Orig(path, line_no, pos, olen) ==
            IF olen.raised THEN NoSentence
            ELSE Norm(path, line_no, Slice(mm, pos + 4, pos + 4 + olen.val),
                      pos + 4 + olen.val, UnpackFrom(mm, pos + 4 + olen.val, 4))
        LineNo(path, pos, line_no) ==
            IF path.raised \/ line_no.raised THEN NoSentence
            ELSE Orig(path.str, line_no.val, pos + 4, UnpackFrom(mm, pos + 4, 4))
        Path(plen) ==
            IF plen.raised THEN NoSentence
            ELSE LineNo(Utf8Decode(Slice(mm, off + 2, off + 2 + plen.val)),
                        off + 2 + plen.val, UnpackFrom(mm, off + 2 + plen.val, 4))
    IN  Path(UnpackFrom(mm, off, 2))

\* CorpusDB.get_sentence(sid): KeyError for an id the table does not hold
CdbGetSentence(db, sid) ==
    IF sid \notin DOMAIN db.idx THEN NoSentence ELSE ReadRecord(db.mm, db.idx[sid])

---------------------------------------------------------------------------
(* Engine (backend/engine.py).                                             *)

\* KGramIndex.build(corpus) followed by attach_corpus(getter, count)
BuiltIndex(sentences, count) ==
    LET w == BuildWordPrefixIndex(sentences)
    IN  [ bst |-> BstFromCorpus(sentences, GRAM),
          term_lex |-> w.term_lex,
          postings |-> w.postings,
          num_sentences |-> count ]

\* KGramIndex() with bst = load_acx(acx), attached to a store of count rows:
\* the word lexicon and the postings stay as __init__ left them
LoadedIndex(file, count) ==
    [ bst |-> LoadAcx(file),
      term_lex |-> << >>,
      postings |-> << >>,
      num_sentences |-> count ]

\* MemoryStore(corpus): rows by id; no rows when corpus is None
MemoryStore(corpus) ==
    IF corpus = None THEN << >>
    ELSE LET sentences == corpus[1]
         IN  [ sid \in { sentences[i].id : i \in DOMAIN sentences } |->
                 sentences[CHOOSE i \in DOMAIN sentences : sentences[i].id = sid] ]

\* store.count()
StoreCount(rows) == Cardinality(DOMAIN rows)

\* make_store(dsn, corpus): [raised, store, cdb].  The sqlite branch writes
\* the CDB file when the path holds no valid one, then constructs
\* SQLiteStore, whose __init__ reads the attribute conn that CorpusDB does
\* not have.
MakeStore(dsn, corpus, cdb) ==
    IF dsn = "sqlite"
    THEN IF ~IsValidCdb(cdb) /\ corpus = None
         THEN [ raised |-> "RuntimeError", store |-> None, cdb |-> cdb ]
         ELSE [ raised |-> "AttributeError", store |-> None,
                cdb |-> IF IsValidCdb(cdb) THEN cdb
                        ELSE << CdbBuildFromCorpus(corpus[1]) >> ]
    ELSE [ raised |-> "", store |-> << MemoryStore(corpus) >>, cdb |-> cdb ]

Dsns == { "memory", "sqlite" }

\* the corpus roots the engine is run on; every file is [path, lines]
FilesA == << [ path |-> "a.txt", lines |-> << << "a","b"," ","c" >>, << "a","b" >> >> ] >>
FilesB == << [ path |-> "a.txt",
               lines |-> << << ",","a","b" >>, << "a","a" >>, << "b"," ","a","b" >> >> ] >>
FilesC == << [ path |-> "a.txt", lines |-> << << "A","b" >> >> ],
             [ path |-> "b.txt", lines |-> << << "a"," ","b" >>, << "a","b" >> >> ] >>
FilesD == << [ path |-> "a.txt",
               lines |-> << << "a","b","a" >>, << "a","b","a","b" >>, << "b","a","b" >> >> ] >>
Corpora == { FilesA, FilesB, FilesC, FilesD }

\* the queries typed by the caller
Queries ==
    { << "a","b" >>, << "a" >>, << "b" >>, << "a","b"," " >>,
      << >>, << "," >>, << " " >> }

MaxK == 3

\* the unsorted rows the search found for the query
FoundRows(query, idx, rows_of, mode) ==
    IF mode # "prefix" THEN SubstringRows(query, idx, rows_of).rows
    ELSE PrefixRows(query, idx, rows_of).rows

Init ==
    /\ fn_in = << >>
    /\ fn_out = << >>
    /\ corpus_files \in Corpora
    /\ SEARCH_MODE \in { "prefix", "substring" }
    /\ disk = [ acx |-> None, cdb |-> None ]
    /\ self_index = None
    /\ self_store = None
    /\ self_in_memory_corpus = None
    /\ last_call = NoCall
    /\ threads = << >>

\* Engine(): a fresh engine object replaces the one in use
NewEngine ==
    /\ self_index' = None
    /\ self_store' = None
    /\ self_in_memory_corpus' = None
    /\ last_call' = [ op |-> "new", raised |-> "" ]
    /\ UNCHANGED <<fn_vars, corpus_files, SEARCH_MODE, disk, threads>>

\* Engine.build(roots, db_dsn=dsn, acx_out=...) with no unit override and no
\* pickle cache
Build(roots_given, dsn, acx_out) ==
    IF ~roots_given
    THEN /\ last_call' = [ op |-> "build", raised |-> "ValueError" ]
         /\ UNCHANGED <<fn_vars, corpus_files, SEARCH_MODE, disk, self_index,
                        self_store, self_in_memory_corpus, threads>>
    ELSE LET corpus == LoadCorpus(corpus_files)
             acx1 == IF acx_out THEN << SaveAcxFromBst(BstFromCorpus(corpus, GRAM), GRAM) >>
                     ELSE disk.acx
             made == MakeStore(dsn, << corpus >>, disk.cdb)
         IN  /\ self_in_memory_corpus' = << corpus >>
             /\ disk' = [ acx |-> acx1, cdb |-> made.cdb ]
             /\ IF made.raised # ""
                THEN /\ UNCHANGED <<self_index, self_store>>
                     /\ last_call' = [ op |-> "build", raised |-> made.raised ]
                ELSE /\ self_store' = made.store
                     /\ self_index' = << BuiltIndex(corpus, StoreCount(made.store[1])) >>
                     /\ last_call' = [ op |-> "build", raised |-> "" ]
             /\ UNCHANGED <<fn_vars, corpus_files, SEARCH_MODE, threads>>

\* Engine.load(acx=..., db_dsn=dsn) with no pickle cache; dsn "" is None
Load(acx_given, dsn) ==
    LET fail(exc) ==
            /\ last_call' = [ op |-> "load", raised |-> exc, acx |-> acx_given, dsn |-> dsn ]
            /\ UNCHANGED <<fn_vars, corpus_files, SEARCH_MODE, disk, self_index,
                           self_store, self_in_memory_corpus, threads>>
    IN  IF ~acx_given THEN fail("ValueError")
        ELSE IF disk.acx = None THEN fail("FileNotFoundError")
        ELSE IF LoadAcx(disk.acx[1]).raised THEN fail("ValueError")
        ELSE IF dsn = "" /\ self_in_memory_corpus = None THEN fail("ValueError")
        ELSE LET made == MakeStore(IF dsn = "" THEN "memory" ELSE dsn,
                                   self_in_memory_corpus, disk.cdb)
             IN  /\ disk' = [ disk EXCEPT !.cdb = made.cdb ]
                 /\ IF made.raised # ""
                    THEN UNCHANGED <<self_index, self_store>>
                    ELSE /\ self_store' = made.store
                         /\ self_index' = << LoadedIndex(disk.acx[1],
                                                         StoreCount(made.store[1])) >>
                 /\ last_call' = [ op |-> "load", raised |-> made.raised,
                                   acx |-> acx_given, dsn |-> dsn ]
                 /\ UNCHANGED <<fn_vars, corpus_files, SEARCH_MODE,
                                self_in_memory_corpus, threads>>

\* Engine.complete(query, top_k=top_k)
Complete(query, top_k) ==
    /\ IF self_index = None
       THEN last_call' = [ op |-> "complete", raised |-> "RuntimeError",
                           query |-> query, top_k |-> top_k, rows |-> << >> ]
       ELSE LET out == CompleteQuery(query, self_index[1], self_store[1], top_k, SEARCH_MODE)
            IN  last_call' = [ op |-> "complete",
                               raised |-> IF out.raised THEN "KeyError" ELSE "",
                               query |-> query, top_k |-> top_k, rows |-> out.rows ]
    /\ UNCHANGED <<fn_vars, corpus_files, SEARCH_MODE, disk, self_index, self_store,
                   self_in_memory_corpus, threads>>

\* variant: shutdown without the finally clause
ShutdownNoFinally(close_raises) ==
    /\ close_raises => self_store # None
    /\ IF close_raises THEN UNCHANGED <<self_store, self_index>>
       ELSE self_store' = None /\ self_index' = None
    /\ last_call' = [ op |-> "shutdown",
                      raised |-> IF close_raises THEN "Exception" ELSE "" ]
    /\ UNCHANGED <<fn_vars, corpus_files, SEARCH_MODE, disk, self_in_memory_corpus, threads>>

\* Engine.shutdown(): the store, if there is one, is closed, which may
\* raise; store and index are dropped in the finally clause either way
Shutdown(close_raises) ==
    /\ close_raises => self_store # None
    /\ self_store' = None
    /\ self_index' = None
    /\ last_call' = [ op |-> "shutdown",
                      raised |-> IF close_raises THEN "Exception" ELSE "" ]
    /\ UNCHANGED <<fn_vars, corpus_files, SEARCH_MODE, disk, self_in_memory_corpus, threads>>

\* store.delete(sid) on the engine's store (MemoryStore.delete): the row is
\* popped if present; the index keeps the getter and the count attached to it
StoreDelete(sid) ==
    /\ self_store # None
    /\ self_store' = << [ x \in DOMAIN self_store[1] \ {sid} |-> self_store[1][x] ] >>
    /\ last_call' = [ op |-> "delete", raised |-> "", sid |-> sid ]
    /\ UNCHANGED <<fn_vars, corpus_files, SEARCH_MODE, disk, self_index,
                   self_in_memory_corpus, threads>>

\* the ids a caller deletes
DeletedIds == { 0 }

Next ==
    \/ NewEngine
    \/ \E sid \in DeletedIds : StoreDelete(sid)
    \/ \E r \in BOOLEAN, dsn \in Dsns, a \in BOOLEAN : Build(r, dsn, a)
    \/ \E a \in BOOLEAN, dsn \in Dsns \cup { "" } : Load(a, dsn)
    \/ \E q \in Queries, k \in 0..MaxK : Complete(q, k)
    \/ \E close_raises \in BOOLEAN : Shutdown(close_raises)

Spec == Init /\ [][Next]_vars

---------------------------------------------------------------------------
(* Properties of Engine.complete under Spec.  Complete leaves the engine   *)
(* untouched, so in the state after a call self_index and self_store are   *)
(* the ones the call ran on.                                               *)

\* a complete() call returned a list
Completed == last_call.op = "complete" /\ last_call.raised = ""

\* the index in use came from build(), not from an ACX file
BuiltEngine == self_index # None /\ DOMAIN self_index[1].bst = { "keys", "postings" }

CorpusSentences == LoadCorpus(corpus_files)

CountIn(seq, v) == Cardinality({ i \in DOMAIN seq : seq[i] = v })

\* C1: the returned list is ordered by score descending, and results with
\* equal score are in ascending lexicographic order of completed_sentence.
C1_TieBreakBySentence ==
    Completed =>
      LET rows == last_call.rows
      IN  \A i, j \in DOMAIN rows :
            i < j => \/ rows[i].score > rows[j].score
                     \/ /\ rows[i].score = rows[j].score
                        /\ StrLeq(rows[i].completed_sentence, rows[j].completed_sentence)

\* C2: on a built engine, every sentence whose normalized text contains the
\* non-empty normalized query Q is returned with a score of at least 2|Q|
\* when top_k is at least the corpus size.
C2_SubstringRecall ==
    (/\ Completed /\ BuiltEngine
     /\ last_call.query # << >>
     /\ NormalizeOnly(last_call.query) = last_call.query
     /\ last_call.top_k >= Len(CorpusSentences)) =>
      \A n \in DOMAIN CorpusSentences :
        LET s == CorpusSentences[n] IN
        Contains(s.normalized, last_call.query) =>
          \E i \in DOMAIN last_call.rows :
            /\ last_call.rows[i].completed_sentence = s.original
            /\ last_call.rows[i].score >= 2 * Len(last_call.query)

\* C4: complete(query, top_k) returns at most top_k results, and no hit
\* that was found but left out scores strictly higher than a returned one.
C4_TopKCut ==
    Completed =>
      LET rows == last_call.rows
          found == FoundRows(last_call.query, self_index[1], self_store[1], SEARCH_MODE)
      IN  /\ Len(rows) <= last_call.top_k
          /\ \A v \in Range(found) :
               CountIn(found, v) > CountIn(rows, v) =>
                 \A i \in DOMAIN rows : v.score <= rows[i].score

\* a call that had to leave out a hit scoring lower than the last one kept
C4_Witness ==
    /\ Completed
    /\ last_call.top_k >= 1
    /\ Len(last_call.rows) = last_call.top_k
    /\ LET found == FoundRows(last_call.query, self_index[1], self_store[1], SEARCH_MODE)
       IN  \E v \in Range(found) :
             /\ CountIn(found, v) > CountIn(last_call.rows, v)
             /\ v.score < last_call.rows[Len(last_call.rows)].score

\* C5: on an initialized engine a query whose normalized form is empty (it
\* holds no word character: empty, whitespace only, punctuation only)
\* returns the empty list and raises nothing, in either search mode.
C5_EmptyQueryEmptyList ==
    (/\ last_call.op = "complete"
     /\ self_index # None
     /\ \A i \in DOMAIN last_call.query : ~IsWordChar(last_call.query[i])) =>
      last_call.raised = "" /\ last_call.rows = << >>

\* a punctuation-only query answered by a built engine in substring mode
C5_Witness ==
    /\ Completed /\ BuiltEngine
    /\ SEARCH_MODE = "substring"
    /\ last_call.query = << "," >>
    /\ last_call.top_k >= 1

\* C6: load() of the ACX file and the sentence file that build() wrote
\* succeeds, and an engine whose index was loaded from the ACX file over
\* the sentences of the build answers complete() like the built engine.
C6_ReloadEquivalent ==
    /\ (/\ last_call.op = "load" /\ last_call.acx /\ last_call.dsn = "sqlite"
        /\ disk.acx # None /\ disk.cdb # None) => last_call.raised = ""
    /\ (/\ Completed /\ self_index # None /\ ~BuiltEngine
        /\ self_store[1] = MemoryStore(<< CorpusSentences >>)) =>
         last_call.rows =
           CompleteQuery(last_call.query,
                         BuiltIndex(CorpusSentences, Len(CorpusSentences)),
                         MemoryStore(<< CorpusSentences >>),
                         last_call.top_k, SEARCH_MODE).rows

\* the lines of the file at path
LinesOf(path) ==
    corpus_files[CHOOSE f \in DOMAIN corpus_files : corpus_files[f].path = path].lines

\* cumulative length of the lines (with their line break) before line_no
RECURSIVE LineBase(_, _)
LineBase(lines, line_no) ==
    IF line_no = 0 THEN 0
    ELSE Len(lines[line_no]) + 1 + LineBase(lines, line_no - 1)

\* start_in_S of the hit of the query in sentence s, as the search takes it
MatchStart(s, query) ==
    IF SEARCH_MODE # "prefix"
    THEN BestMatchInSentence(s.normalized, s.norm_to_orig, NormalizeOnly(query))[2]
    ELSE LET aug == AugmentQuery(query, self_index[1])
         IN  PatternSearch(NormalizeOnly(aug.corrected), aug.trailing_space, s.normalized)[1]

\* C7: the offset of each result is norm_to_orig[start_in_S] plus the
\* cumulative length of the lines preceding the sentence in its file.
C7_OffsetIsFilePosition ==
    (Completed /\ BuiltEngine) =>
      \A i \in DOMAIN last_call.rows :
        LET r == last_call.rows[i] IN
        \E n \in DOMAIN CorpusSentences :
          LET s == CorpusSentences[n] IN
          /\ s.original = r.completed_sentence
          /\ s.path = r.source_text
          /\ r.offset[1] = s.norm_to_orig[MatchStart(s, last_call.query) + 1]
                             + LineBase(LinesOf(s.path), s.line_no)

---------------------------------------------------------------------------
(* Specification SpecConc: several callers run Engine.complete on one      *)
(* built engine at the same time.  A call is cut into the steps at which   *)
(* it reads shared state: the index reference in Engine.complete, the      *)
(* lexicon and postings while candidates are selected, the store while the *)
(* candidates are scored.  Each caller keeps its previous call to compare. *)

Threads == { "t1", "t2" }

ConcQueries == { << "a","b" >>, << "a" >> }
ConcTopKs == { 1, 2 }

IdleThread(prev) ==
    [ pc |-> "idle", query |-> << >>, top_k |-> 0, aug |-> None, ids |-> << >>,
      out |-> None, prev |-> prev ]

\* MemoryStore.read(sid) for the ids read: popped rows
StoreAfterPoppingReads(rows, ids) ==
    [ sid \in DOMAIN rows \ Range(ids) |-> rows[sid] ]

\* MemoryStore.read(sid) for the ids read: _rows is looked up, not changed
StoreAfterReads(rows, ids) == rows

InitConc ==
    /\ fn_in = << >>
    /\ fn_out = << >>
    /\ corpus_files \in Corpora
    /\ SEARCH_MODE \in { "prefix", "substring" }
    /\ disk = [ acx |-> None, cdb |-> None ]
    /\ self_in_memory_corpus = << LoadCorpus(corpus_files) >>
    /\ self_store = << MemoryStore(self_in_memory_corpus) >>
    /\ self_index = << BuiltIndex(LoadCorpus(corpus_files), StoreCount(self_store[1])) >>
    /\ last_call = [ op |-> "build", raised |-> "" ]
    /\ threads = [ t \in Threads |-> IdleThread(None) ]

\* Engine.complete: self.index is set, complete_query is entered
BeginComplete(t, query, top_k) ==
    /\ threads[t].pc = "idle"
    /\ self_index # None
    /\ threads' = [ threads EXCEPT ![t] =
                      [ @ EXCEPT !.pc = "called", !.query = query, !.top_k = top_k ] ]
    /\ UNCHANGED <<fn_vars, engine_vars>>

\* complete_query up to the candidate ids
SelectCandidates(t) ==
    /\ threads[t].pc = "called"
    /\ LET th == threads[t]
           idx == self_index[1]
           aug == AugmentQuery(th.query, idx)
       IN  threads' = [ threads EXCEPT ![t] =
             IF SEARCH_MODE # "prefix"
             THEN IF NormalizeOnly(th.query) = << >>
                  THEN [ th EXCEPT !.pc = "done",
                                   !.out = << [raised |-> FALSE, rows |-> << >>] >> ]
                  ELSE [ th EXCEPT !.pc = "scoring",
                                   !.ids = RangeSeq(idx.num_sentences) ]
             ELSE [ th EXCEPT !.pc = "scoring", !.aug = << aug >>,
                              !.ids = PrefixCandidates(th.query, idx, aug) ] ]
    /\ UNCHANGED <<fn_vars, engine_vars>>

\* the scoring loop over index.iter_sentences(ids), the sort and the cut
ScoreCandidates(t) ==
    /\ threads[t].pc = "scoring"
    /\ LET th == threads[t]
           got == IterSentences(th.ids, self_store[1])
           rows == Flatten([ i \in DOMAIN got.sents |->
                               IF SEARCH_MODE # "prefix"
                               THEN SubstringHit(got.sents[i], NormalizeOnly(th.query))
                               ELSE PrefixHit(got.sents[i], th.query, th.aug[1]) ])
           out == IF got.raised THEN [raised |-> TRUE, rows |-> << >>]
                  ELSE [raised |-> FALSE, rows |-> TopRows(SortRows(rows), th.top_k)]
       IN  /\ threads' = [ threads EXCEPT ![t] = [ th EXCEPT !.pc = "done", !.out = << out >> ] ]
           /\ self_store' = << StoreAfterReads(self_store[1], th.ids) >>
    /\ UNCHANGED <<fn_vars, corpus_files, SEARCH_MODE, disk, self_index,
                   self_in_memory_corpus, last_call>>

\* the caller takes the list; the call becomes its previous call
ReturnResult(t) ==
    /\ threads[t].pc = "done"
    /\ threads' = [ threads EXCEPT ![t] =
                      IdleThread(<< [ query |-> threads[t].query, top_k |-> threads[t].top_k,
                                      out |-> threads[t].out[1] ] >>) ]
    /\ UNCHANGED <<fn_vars, engine_vars>>

NextConc ==
    \/ \E t \in Threads, q \in ConcQueries, k \in ConcTopKs : BeginComplete(t, q, k)
    \/ \E t \in Threads : SelectCandidates(t)
    \/ \E t \in Threads : ScoreCandidates(t)
    \/ \E t \in Threads : ReturnResult(t)

SpecConc == InitConc /\ [][NextConc]_vars

\* what complete(query, top_k) returns when it runs alone on the engine
\* built from the corpus files
AloneOutcome(query, top_k) ==
    CompleteQuery(query, BuiltIndex(CorpusSentences, Len(CorpusSentences)),
                  MemoryStore(<< CorpusSentences >>), top_k, SEARCH_MODE)

---------------------------------------------------------------------------
(* Specification SpecNormalize: the normalizer as a pure function.  Init   *)
(* draws the text from the strings over a small alphabet holding a lower   *)
(* and an upper case letter, both whitespace characters, a punctuation     *)
(* mark and the two letters whose casefold has two code points.            *)

MaxTextLen == 4
NormAlphabet == { "a", "B", " ", Tab, ",", Eszett, IDot }

NormalizeInputs ==
    { [fn |-> "normalize", text |-> x] : x \in StringsOver(NormAlphabet, 0, MaxTextLen) }

InitNormalize ==
    /\ fn_in \in NormalizeInputs
    /\ fn_out = NotApplied
    /\ EngineUnused

\* N, M = normalize_and_map(text)
NormalizeText ==
    /\ fn_in.fn = "normalize"
    /\ ~fn_out.done
    /\ fn_out' = [done |-> TRUE, val |-> NormalizeAndMap(fn_in.text)]
    /\ UNCHANGED <<fn_in, engine_vars, threads>>

\* normalize_only(N) on the normalized string of the first call
NormalizeAgain ==
    /\ fn_in.fn = "normalize"
    /\ fn_out.done
    /\ "again" \notin DOMAIN fn_out
    /\ fn_out' = [done |-> TRUE, val |-> fn_out.val,
                  again |-> NormalizeOnly(fn_out.val[1])]
    /\ UNCHANGED <<fn_in, engine_vars, threads>>

NextNormalize == NormalizeText \/ NormalizeAgain

SpecNormalize == InitNormalize /\ [][NextNormalize]_vars

Normalized == fn_out.done /\ fn_in.fn = "normalize"
Renormalized == Normalized /\ "again" \in DOMAIN fn_out

\* C11: normalizing a normalized string gives the same string back, for
\* every input text.
C11_NormalizeIdempotent ==
    Renormalized => fn_out.again = fn_out.val[1]

\* C12: the mapping has exactly one entry per code point of the normalized
\* string, also when a character casefolds to more than one code point.
C12_MappingLengthEqual ==
    Normalized => Len(fn_out.val[2]) = Len(fn_out.val[1])

\* 0-based indices of the word characters of O
WordIndices(O) == { i \in 0..(Len(O) - 1) : IsWordChar(O[i + 1]) }

\* 0-based indices of the whitespace characters of O that open a whitespace
\* run between two word characters: no whitespace lies between the word
\* character before them and themselves
FirstSpaceIndices(O) ==
    { p \in 0..(Len(O) - 1) :
        /\ IsSpace(O[p + 1])
        /\ \E w \in WordIndices(O) : w < p
        /\ \E w \in WordIndices(O) : w > p
        /\ \A j \in 0..(p - 1) :
              (\A w \in WordIndices(O) : w < p => w < j) => ~IsSpace(O[j + 1]) }

\* C13: the mapping is strictly increasing, every entry is an index of the
\* input, and its entries are the indices of the word characters together
\* with, for each collapsed space, the index of the first whitespace
\* character of the run that produced it.
C13_MappingIncreasingFirstSpace ==
    Normalized =>
      LET O == fn_in.text
          M == fn_out.val[2]
      IN  /\ \A i \in 1..(Len(M) - 1) : M[i] < M[i + 1]
          /\ \A i \in DOMAIN M : M[i] < Len(O)
          /\ Range(M) = WordIndices(O) \cup FirstSpaceIndices(O)

\* a space collapsed from a run of two whitespace characters: its entry is
\* the index of the first of them
C13_Witness ==
    /\ Normalized
    /\ fn_in.text = << "a", " ", Tab, "B" >>
    /\ fn_out.val = << << "a", " ", "b" >>, << 0, 1, 3 >> >>

---------------------------------------------------------------------------
(* Specification SpecFiles: the two file formats as pure functions.  An    *)
(* ACX job writes a list of (key, ids) items in the order given, opens the *)
(* file and looks every key up.  A CDB job writes a corpus, cuts the file  *)
(* inside one record and reads that record.                                *)

MaxItems == 3
AcxKeys == { << "a" >>, << "b" >>, << "a", "b" >> }
AcxIdLists == { << >>, << 0 >>, << 1, 0 >>, << 300 >> }

\* the lists of at most MaxItems items with pairwise distinct keys
AcxInputs ==
    { [fn |-> "acx", items |-> items] :
        items \in { it \in UNION { [1..n -> AcxKeys \X AcxIdLists] : n \in 0..MaxItems } :
                      \A i, j \in DOMAIN it : i # j => it[i][1] # it[j][1] } }

CdbTexts ==
    { << << "a", " ", "b" >>, << Eszett >> >>,
      << << "A", "b" >> >> }

\* the sentences of a one-file corpus with the given lines
CdbSentences(lines) == LoadCorpus(<< [ path |-> "a.txt", lines |-> lines ] >>)

\* where the record of sentence sid starts and ends in the CDB file
RecordSpan(sentences, sid) ==
    LET Span(off) == << off, off + Len(WriteRecord(sentences[sid + 1])) >>
    IN  Span(CdbOpen(CdbBuildFromCorpus(sentences)).idx[sid])

\* a corpus, one of its ids and a file length that ends inside the record
CdbInputs ==
    { [fn |-> "cdb", lines |-> job[1], sid |-> job[2], cut |-> job[3]] :
        job \in { j \in CdbTexts \X (0..1) \X (0..80) :
                    /\ j[2] < Len(j[1])
                    /\ j[3] > RecordSpan(CdbSentences(j[1]), j[2])[1]
                    /\ j[3] < RecordSpan(CdbSentences(j[1]), j[2])[2] } }

InitFiles ==
    /\ fn_in \in AcxInputs \cup CdbInputs
    /\ fn_out = NotApplied
    /\ EngineUnused

\* ACXWriter(GRAM).save(path, items); ix = ACXIndex(path); ix.get(key) for
\* every key
AcxWriteOpenGet ==
    /\ fn_in.fn = "acx"
    /\ ~fn_out.done
    /\ LET Gets(ix) == [ raised |-> ix.raised,
                         ids |-> [ key \in AcxKeys |->
                                     IF ix.raised THEN {} ELSE AcxGet(ix, key) ] ]
       IN  fn_out' = [done |-> TRUE, val |-> Gets(LoadAcx(AcxSave(fn_in.items, GRAM)))]
    /\ UNCHANGED <<fn_in, engine_vars, threads>>

\* CorpusDB.build_from_corpus(corpus, path), the file cut to fn_in.cut
\* bytes, CorpusDB(path).get_sentence(sid)
CdbReadTruncated ==
    /\ fn_in.fn = "cdb"
    /\ ~fn_out.done
    /\ LET Read(file) == CdbGetSentence(CdbOpen(Slice(file, 0, fn_in.cut)), fn_in.sid)
       IN  fn_out' = [done |-> TRUE,
                      val |-> Read(CdbBuildFromCorpus(CdbSentences(fn_in.lines)))]
    /\ UNCHANGED <<fn_in, engine_vars, threads>>

NextFiles == AcxWriteOpenGet \/ CdbReadTruncated

SpecFiles == InitFiles /\ [][NextFiles]_vars

\* the ids written for a key, the empty set for a key not written
IdsWritten(items, key) ==
    UNION { Range(items[i][2]) : i \in { i \in DOMAIN items : items[i][1] = key } }

\* C14: whatever the order of the items given to the writer, the opened
\* file returns for every key exactly the ids written for it, and the
\* empty set for a key that was not written.
C14_AcxRoundTrip ==
    (fn_out.done /\ fn_in.fn = "acx") =>
        /\ ~fn_out.val.raised
        /\ \A key \in AcxKeys : fn_out.val.ids[key] = IdsWritten(fn_in.items, key)

\* C18: reading a record of a file that ends inside that record fails.
C18_TruncatedRecordFails ==
    (fn_out.done /\ fn_in.fn = "cdb") => fn_out.val.raised

---------------------------------------------------------------------------
(* Specification SpecPersist: the write steps of the persistence part of   *)
(* build(roots, db_dsn="sqlite:///...", acx_out=...), one f.write or one   *)
(* file-system call per step, with a crash possible between any two.       *)
(* disk holds the files at the two final paths; fn_in is the job (the new  *)
(* corpus and the files found at the start), fn_out the writer's position: *)
(* pc, the number of the ACX save (build saves the ACX file twice), the    *)
(* chunks not yet written, and the temporary CDB file.                     *)

\* the complete files a build of the given corpus files leaves
AcxFileOf(files) == SaveAcxFromBst(BstFromCorpus(LoadCorpus(files), GRAM), GRAM)
CdbFileOf(files) == CdbBuildFromCorpus(LoadCorpus(files))

InitPersist ==
    /\ \E files \in Corpora :
         /\ corpus_files = files
         /\ \E old_acx \in { None } \cup { << AcxFileOf(f) >> : f \in Corpora },
               old_cdb \in { None } \cup { << CdbFileOf(f) >> : f \in Corpora } :
              /\ disk = [ acx |-> old_acx, cdb |-> old_cdb ]
              /\ fn_in = [ fn |-> "persist", prev |-> disk ]
    /\ fn_out = [ pc |-> "open_acx", save |-> 1, pending |-> << >>, step |-> 0,
                  tmp |-> None ]
    /\ SEARCH_MODE = "prefix"
    /\ self_index = None
    /\ self_store = None
    /\ self_in_memory_corpus = None
    /\ last_call = NoCall
    /\ threads = << >>

persist_frame == <<fn_in, corpus_files, SEARCH_MODE, self_index, self_store,
                   self_in_memory_corpus, last_call, threads>>

\* open(path, "wb") of ACXWriter.save: the file at the final path is
\* created or truncated
OpenAcx ==
    /\ fn_out.pc = "open_acx"
    /\ disk' = [ disk EXCEPT !.acx = << << >> >> ]
    /\ fn_out' = [ fn_out EXCEPT !.pc = "write_acx",
                                 !.pending = AcxChunks(BstIterItems(
                                     BstFromCorpus(LoadCorpus(corpus_files), GRAM)), GRAM) ]
    /\ UNCHANGED persist_frame

\* one f.write of ACXWriter.save reaching the file
WriteAcx ==
    /\ fn_out.pc = "write_acx"
    /\ fn_out.pending # << >>
    /\ disk' = [ disk EXCEPT !.acx = << disk.acx[1] \o Head(fn_out.pending) >> ]
    /\ fn_out' = [ fn_out EXCEPT !.pending = Tail(@) ]
    /\ UNCHANGED persist_frame

\* the end of the with block; build() then saves the ACX file a second time
CloseAcx ==
    /\ fn_out.pc = "write_acx"
    /\ fn_out.pending = << >>
    /\ fn_out' = IF fn_out.save = 1
                 THEN [ fn_out EXCEPT !.pc = "open_acx", !.save = 2 ]
                 ELSE [ fn_out EXCEPT !.pc = "make_store" ]
    /\ UNCHANGED <<disk, persist_frame>>

\* make_store: a valid CDB file at the path is kept, otherwise
\* build_from_corpus opens path + ".tmp"
OpenCdbTmp ==
    /\ fn_out.pc = "make_store"
    /\ fn_out' = IF IsValidCdb(disk.cdb)
                 THEN [ fn_out EXCEPT !.pc = "done" ]
                 ELSE [ fn_out EXCEPT !.pc = "write_cdb", !.step = 0, !.tmp = << << >> >> ]
    /\ UNCHANGED <<disk, persist_frame>>

\* one write step of build_from_corpus on the temporary file
WriteCdbTmp ==
    /\ fn_out.pc = "write_cdb"
    /\ fn_out.step < CdbWriteSteps(LoadCorpus(corpus_files))
    /\ fn_out' = [ fn_out EXCEPT !.step = @ + 1,
                                 !.tmp = << CdbTmpAt(LoadCorpus(corpus_files),
                                                     fn_out.step + 1) >> ]
    /\ UNCHANGED <<disk, persist_frame>>

\* os.replace(tmp, db_path)
ReplaceCdb ==
    /\ fn_out.pc = "write_cdb"
    /\ fn_out.step = CdbWriteSteps(LoadCorpus(corpus_files))
    /\ disk' = [ disk EXCEPT !.cdb = fn_out.tmp ]
    /\ fn_out' = [ fn_out EXCEPT !.pc = "done", !.tmp = None ]
    /\ UNCHANGED persist_frame

\* the process dies; the files stay as they are
Crash ==
    /\ fn_out.pc \notin { "done", "crashed" }
    /\ fn_out' = [ fn_out EXCEPT !.pc = "crashed" ]
    /\ UNCHANGED <<disk, persist_frame>>

NextPersist ==
    \/ OpenAcx \/ WriteAcx \/ CloseAcx
    \/ OpenCdbTmp \/ WriteCdbTmp \/ ReplaceCdb
    \/ Crash

SpecPersist == InitPersist /\ [][NextPersist]_vars

\* C15: at every point of the persistence, a crash included, the file at
\* the final ACX path and the file at the final CDB path are each absent,
\* the complete file found at the start, or the complete new file.
C15_FinalPathsNeverPartial ==
    fn_in.fn = "persist" =>
        /\ disk.acx \in { None, fn_in.prev.acx, << AcxFileOf(corpus_files) >> }
        /\ disk.cdb \in { None, fn_in.prev.cdb, << CdbFileOf(corpus_files) >> }

\* C15 restricted to the CDB file, which is written to a temporary file
\* and moved over the final path
C15_CdbPathNeverPartial ==
    fn_in.fn = "persist" =>
        disk.cdb \in { None, fn_in.prev.cdb, << CdbFileOf(corpus_files) >> }


---------------------------------------------------------------------------
(* The k-gram postings right after a build (KGramIndex.build).             *)

\* build() has just returned an engine
JustBuilt == last_call.op = "build" /\ last_call.raised = ""

\* sorted-order positions of the keys of a BST
BstKeyPositions == DOMAIN self_index[1].bst.keys

\* the ids whose sentence, as the attached store returns it, contains g
IdsContaining(g) ==
    { x \in DOMAIN self_store[1] : Contains(self_store[1][x].normalized, g) }

\* C16: right after build(), the postings of every k-gram key of the index
\* are strictly ascending (so without duplicates) and hold exactly the ids
\* of the sentences whose normalized text, as the attached store returns
\* it, contains the key.
C16_PostingsExactAscending ==
    JustBuilt =>
        \A j \in BstKeyPositions :
            LET g == self_index[1].bst.keys[j]
                ids == self_index[1].bst.postings[j]
            IN  /\ \A a, b \in DOMAIN ids : a < b => ids[a] < ids[b]
                /\ Range(ids) = IdsContaining(g)

\* a build left a key whose postings hold more than one id, next to a
\* sentence that does not contain the key
C16_Witness ==
    /\ JustBuilt
    /\ \E j \in BstKeyPositions :
          /\ Len(self_index[1].bst.postings[j]) >= 2
          /\ IdsContaining(self_index[1].bst.keys[j]) # DOMAIN self_store[1]


---------------------------------------------------------------------------
(* Iteration over ids the store no longer holds.                           *)

\* C17: the iteration complete() performs over its candidate ids skips the
\* ids the store does not hold (deleted ones included) and does not raise:
\* a complete() call on an engine with an index returns a list.
C17_IterationSkipsAbsentIds ==
    (last_call.op = "complete" /\ self_index # None) => last_call.raised = ""


---------------------------------------------------------------------------
(* Segmentation at build time: Engine.build(roots, unit=..., window_size=  *)
(* ..., window_step=...) up to the loaded corpus (engine.py lines 69-83),  *)
(* next to a direct load_corpus call with the same arguments.  fn_out is   *)
(* [pc, cfg, corpus]; cfg is the config module as build() leaves it.       *)

MaxLines == 3
LoaderLines == { << "a" >>, << >>, << " " >> }
\* an optional argument is << >> (None) or << value >>
Units == { None, << "line" >>, << "paragraph" >>, << "window" >> }
WindowSizes == { None, << 1 >>, << 2 >> }
WindowSteps == { None, << 2 >> }

LoaderInputs ==
    { [fn |-> "build_units", files |-> << [path |-> "a.txt", lines |-> ls] >>,
       unit |-> u, window_size |-> ws, window_step |-> st] :
        ls \in StringsOver(LoaderLines, 0, MaxLines),
        u \in Units, ws \in WindowSizes, st \in WindowSteps }

InitLoader ==
    /\ fn_in \in LoaderInputs
    /\ fn_out = [ pc |-> "start",
                  cfg |-> [ TEXT_UNIT |-> TEXT_UNIT, WINDOW_SIZE |-> WINDOW_SIZE,
                            WINDOW_STEP |-> WINDOW_STEP ] ]
    /\ EngineUnused

\* build(): the overrides written into the config module
OverrideConfig ==
    /\ fn_in.fn = "build_units"
    /\ fn_out.pc = "start"
    /\ fn_out' = [ pc |-> "configured",
                   cfg |-> [ TEXT_UNIT |-> IF fn_in.unit # None THEN fn_in.unit[1]
                                           ELSE fn_out.cfg.TEXT_UNIT,
                             WINDOW_SIZE |-> IF fn_in.window_size # None
                                             THEN fn_in.window_size[1]
                                             ELSE fn_out.cfg.WINDOW_SIZE,
                             WINDOW_STEP |-> IF fn_in.window_step # None
                                             THEN fn_in.window_step[1]
                                             ELSE fn_out.cfg.WINDOW_STEP ] ]
    /\ UNCHANGED <<fn_in, engine_vars, threads>>

\* build(): corpus = load_corpus(roots), called with the roots alone
BuildLoadCorpus ==
    /\ fn_in.fn = "build_units"
    /\ fn_out.pc = "configured"
    /\ fn_out' = [ pc |-> "loaded", cfg |-> fn_out.cfg,
                   corpus |-> LoadCorpusWith(fn_in.files, None, None, None) ]
    /\ UNCHANGED <<fn_in, engine_vars, threads>>

\* load_corpus(roots, unit, window_size, window_step) called directly
LoadCorpusDirect ==
    /\ fn_in.fn = "build_units"
    /\ fn_out.pc = "start"
    /\ fn_out' = [ pc |-> "direct", cfg |-> fn_out.cfg,
                   corpus |-> LoadCorpusWith(fn_in.files, fn_in.unit,
                                             fn_in.window_size, fn_in.window_step) ]
    /\ UNCHANGED <<fn_in, engine_vars, threads>>

NextLoader == OverrideConfig \/ BuildLoadCorpus \/ LoadCorpusDirect

SpecLoader == InitLoader /\ [][NextLoader]_vars

\* the blocks [first, last] (1-based line numbers) the unit asks for
BlocksOf(lines, unit, size, step) ==
    LET n == Len(lines)
    IN  CASE unit = "paragraph" ->
                { << a, b >> \in (1..n) \X (1..n) :
                    /\ a <= b
                    /\ \A i \in a..b : ~IsBlankLine(lines[i])
                    /\ a = 1 \/ IsBlankLine(lines[a - 1])
                    /\ b = n \/ IsBlankLine(lines[b + 1]) }
          [] unit = "window" ->
                { << a, b >> \in (1..n) \X (1..n) :
                    /\ b = a + size - 1
                    /\ (a - 1) % step = 0 }
          [] OTHER -> { << a, a >> : a \in 1..n }

\* the sentences asked for: the blocks in file order, each the lines of the
\* block joined by newlines, line_no the 0-based first line
ExpectedUnits(lines, unit, size, step) ==
    LET blocks == BlocksOf(lines, unit, size, step)
        firsts == SortedInts({ blk[1] : blk \in blocks })
        LastOf(a) == CHOOSE b \in 1..Len(lines) : << a, b >> \in blocks
    IN  [ k \in DOMAIN firsts |->
            [ line_no |-> firsts[k] - 1,
              original |-> JoinNewline(Slice(lines, firsts[k] - 1, LastOf(firsts[k]))) ] ]

\* line_no and original of the sentences of a corpus
UnitsOf(corpus) ==
    [ k \in DOMAIN corpus |->
        [ line_no |-> corpus[k].line_no, original |-> corpus[k].original ] ]

\* the unit, size and step build() was asked for, defaults filled in
AskedUnit == IF fn_in.unit = None THEN TEXT_UNIT ELSE fn_in.unit[1]
AskedSize == IF fn_in.window_size = None THEN WINDOW_SIZE ELSE fn_in.window_size[1]
AskedStep == IF fn_in.window_step = None THEN WINDOW_STEP ELSE fn_in.window_step[1]

\* C19: the corpus build(roots, unit, window_size, window_step) loads is
\* segmented by the given unit: one sentence per line, per blank-line-
\* separated block, or per window of window_size lines every window_step
\* lines, with line_no the 0-based first line of the block.
C19_BuildSegmentsByUnit ==
    (fn_in.fn = "build_units" /\ fn_out.pc = "loaded") =>
        UnitsOf(fn_out.corpus)
            = ExpectedUnits(fn_in.files[1].lines, AskedUnit, AskedSize, AskedStep)

\* the same arguments given to load_corpus itself select the segmentation
LoaderSegmentsByUnit ==
    (fn_in.fn = "build_units" /\ fn_out.pc = "direct") =>
        UnitsOf(fn_out.corpus)
            = ExpectedUnits(fn_in.files[1].lines, AskedUnit, AskedSize, AskedStep)


---------------------------------------------------------------------------
(* The corrections of augment_query, against the word index built from a   *)
(* file whose lines are single words.                                      *)

MaxWords == 3
WordPool ==
    { << "a","c" >>, << "b","b" >>, << "a","1" >>, << "a","b","c" >>,
      << "a" >>, << "1","2" >> }
AugmentTokens == { << "a","b" >>, << "1","b" >>, << "1","3" >> }
\* the raw queries: the single tokens, a token of the pool, a trailing
\* space, two tokens
AugmentQueries ==
    AugmentTokens \cup { << "a","c" >>, << "a","b"," " >>,
                         << "1","b"," ","a","b" >> }

\* the word index of KGramIndex.build for a corpus of the given lines
WordIndexOf(lines) ==
    BuildWordPrefixIndex(LoadCorpus(<< [path |-> "a.txt", lines |-> lines] >>))

AugmentInputs ==
    { [fn |-> "augment", query |-> q, index |-> WordIndexOf(ls)] :
        q \in AugmentQueries, ls \in StringsOver(WordPool, 0, MaxWords) }

InitAugment ==
    /\ fn_in \in AugmentInputs
    /\ fn_out = NotApplied
    /\ EngineUnused

\* out = augment_query(query, index)
Augment ==
    /\ fn_in.fn = "augment"
    /\ ~fn_out.done
    /\ fn_out' = [done |-> TRUE, val |-> AugmentQuery(fn_in.query, fn_in.index)]
    /\ UNCHANGED <<fn_in, engine_vars, threads>>

NextAugment == Augment

SpecAugment == InitAugment /\ [][NextAugment]_vars

\* the lexicon terms within one edit of the token; the band of 3000 terms
\* on each side of the bisect point covers the whole lexicon here
EditCandidates ==
    { u \in Range(fn_in.index.term_lex) : Within1Edit(fn_in.query, u)[1] }

\* the query is a single token
OneTokenQuery == fn_in.query \in AugmentTokens

\* u is at least as good as v: higher term frequency, then penalty closer
\* to zero, then lexicographically smaller
PreferredTo(u, v) ==
    LET tf(x) == TermFreq(fn_in.index.postings, x)
        pen(x) == Within1Edit(fn_in.query, x)[2]
    IN  \/ tf(u) > tf(v)
        \/ tf(u) = tf(v) /\ pen(u) > pen(v)
        \/ tf(u) = tf(v) /\ pen(u) = pen(v) /\ StrLeq(u, v)

\* C20: for a token that is not in the lexicon, the term augment_query
\* selects is, among all lexicon terms within one edit of the token, the
\* one with the highest term frequency, then the penalty closest to zero,
\* then the lexicographically smallest; a preference for alphabetic terms
\* only breaks the ties left after these.
C20_FrequencyThenPenaltyThenLex ==
    (/\ fn_in.fn = "augment"
     /\ fn_out.done
     /\ OneTokenQuery
     /\ fn_in.query \notin Range(fn_in.index.term_lex)
     /\ EditCandidates # {})
        => /\ fn_out.val.token_map[1][2] \in EditCandidates
           /\ \A v \in EditCandidates : PreferredTo(fn_out.val.token_map[1][2], v)


\* the penalties the tables give for the single edits that turn the token
\* into the term: a substitution at p, a token letter at p that the term
\* lacks, a term letter missing from the token at p (1-based)
OneEditPenalties(tok, term) ==
    { SubPenaltyTable(p) : p \in { p \in 1..Len(tok) :
                                     /\ Len(term) = Len(tok)
                                     /\ term[p] # tok[p]
                                     /\ \A k \in 1..Len(tok) : k # p => term[k] = tok[k] } }
    \cup { IndelPenaltyTable(p) : p \in { p \in 1..Len(tok) : DeleteAt(tok, p) = term } }
    \cup { IndelPenaltyTable(p) : p \in { p \in 1..Len(term) : DeleteAt(term, p) = tok } }

\* the tokens of the normalized query
QueryTokens == Tokens(NormalizeOnly(fn_in.query))

\* C21: every token_map entry (orig, corrected, penalty): the token is kept
\* with penalty 0 when it is in the lexicon or no lexicon term is one edit
\* away; otherwise corrected is a lexicon term one edit away and penalty is
\* the table value of that edit's position.  total_penalty is the sum of
\* the entry penalties and is <= 0, and the corrected query ends with a
\* space iff the raw query does.
C21_TokenMapEntries ==
    (fn_in.fn = "augment" /\ fn_out.done) =>
        LET out == fn_out.val
            lex == Range(fn_in.index.term_lex)
        IN  /\ Len(out.token_map) = Len(QueryTokens)
            /\ \A t \in DOMAIN out.token_map :
                  LET e == out.token_map[t]
                      near == { u \in lex : OneEditPenalties(e[1], u) # {} }
                  IN  /\ e[1] = QueryTokens[t]
                      /\ IF e[1] \in lex \/ near = {}
                         THEN e[2] = e[1] /\ e[3] = 0
                         ELSE e[2] \in near /\ e[3] \in OneEditPenalties(e[1], e[2])
            /\ out.total_penalty = SumPenalties(out.token_map)
            /\ out.total_penalty <= 0
            /\ EndsWithSpace(out.corrected) <=> EndsWithSpace(fn_in.query)


---------------------------------------------------------------------------
(* The work per query.                                                     *)

\* C22: in every complete() call, in either search mode, at most
\* MAX_CANDIDATES sentences are fetched from the store and scored.
C22_FetchedAtMostMaxCandidates ==
    Completed =>
        Len(FetchedIds(last_call.query, self_index[1], SEARCH_MODE)) <= MAX_CANDIDATES


---------------------------------------------------------------------------
(* The lexicon expansion of candidates_for_prefix_query, on the word       *)
(* indexes of the corrections above.                                       *)

MaxTerms == 2
PrefixQueries == { << "a" >>, << "a","b" >>, << "b","b"," ","a" >> }

PrefixTermInputs ==
    { [fn |-> "prefix_terms", query |-> q, index |-> WordIndexOf(ls), max_terms |-> m] :
        q \in PrefixQueries, ls \in StringsOver(WordPool, 0, MaxWords),
        m \in 1..MaxTerms }

InitPrefixTerms ==
    /\ fn_in \in PrefixTermInputs
    /\ fn_out = NotApplied
    /\ EngineUnused

\* index.candidates_for_prefix_query(query, max_terms, MAX_PREFIX_CANDIDATES):
\* val is [terms, ids], the terms whose postings were unioned and the ids
ExpandPrefixQuery ==
    /\ fn_in.fn = "prefix_terms"
    /\ ~fn_out.done
    /\ LET q_toks == Tokens(fn_in.query)
       IN  fn_out' = [ done |-> TRUE,
                       val |-> [ terms |-> PrefixQueryTerms(q_toks[Len(q_toks)],
                                               fn_in.index.term_lex, fn_in.max_terms),
                                 ids |-> CandidatesForPrefixQuery(fn_in.index, fn_in.query,
                                             fn_in.max_terms, MAX_PREFIX_CANDIDATES) ] ]
    /\ UNCHANGED <<fn_in, engine_vars, threads>>

NextPrefixTerms == ExpandPrefixQuery

SpecPrefixTerms == InitPrefixTerms /\ [][NextPrefixTerms]_vars

\* C23: the lexicon terms whose postings candidates_for_prefix_query unions
\* (prefix range plus one-edit neighbours of the last token) number at
\* most max_terms.
C23_AtMostMaxTerms ==
    (fn_in.fn = "prefix_terms" /\ fn_out.done) =>
        Len(fn_out.val.terms) <= fn_in.max_terms


---------------------------------------------------------------------------
(* The k-gram candidate selector: KGramIndex.candidate_ids                 *)
(* (backend/DB/index.py).  index.bst is the BST of build() or the ACXIndex *)
(* of load().                                                              *)

\* BST.get(key) on the frozen form
BstGet(bst, key) ==
    LET At(i) == IF i # Len(bst.keys) /\ bst.keys[i + 1] = key
                 THEN Range(bst.postings[i + 1]) ELSE {}
    IN  At(BisectLeft(bst.keys, key))

\* callable(getattr(self.bst, "iter_items", None)): BST has the method,
\* ACXIndex has not
HasIterItems(bst) == DOMAIN bst = { "keys", "postings" }

\* self.bst.get(g) for either kind of index
IndexGet(bst, g) == IF HasIterItems(bst) THEN BstGet(bst, g) ELSE AcxGet(bst, g)

\* variant: the cap keeping the smallest ids, whatever their hit counts
RECURSIVE TopByIdOnly(_, _)
TopByIdOnly(counts, n) ==
    IF n = 0 \/ DOMAIN counts = {} THEN {}
    ELSE LET m == Min(DOMAIN counts)
         IN  {m} \cup TopByIdOnly([ x \in DOMAIN counts \ {m} |-> counts[x] ], n - 1)

\* sorted(counts.items(), key=lambda kv: (-kv[1], kv[0]))[:n], as a set of ids
RECURSIVE TopByCount(_, _)
TopByCount(counts, n) ==
    IF n = 0 \/ DOMAIN counts = {} THEN {}
    ELSE LET m == CHOOSE x \in DOMAIN counts :
                      \A y \in DOMAIN counts :
                          counts[x] > counts[y] \/ (counts[x] = counts[y] /\ x <= y)
         IN  {m} \cup TopByCount([ x \in DOMAIN counts \ {m} |-> counts[x] ], n - 1)

\* the soft cap on a Counter of hits per sentence id
CapCounts(counts) ==
    IF MAX_CANDIDATES # 0 /\ Cardinality(DOMAIN counts) > MAX_CANDIDATES
    THEN TopByCount(counts, MAX_CANDIDATES)
    ELSE DOMAIN counts

\* the Counter filled from a collection of posting sets, one hit per set
\* that holds the id
CountHits(sets) ==
    [ sid \in UNION Range(sets) |-> Cardinality({ j \in DOMAIN sets : sid \in sets[j] }) ]

\* candidate_ids(query_norm)
CandidateIds(bst, q) ==
    IF q = << >> THEN {}
    ELSE IF Len(q) < GRAM
    THEN IF HasIterItems(bst)
         THEN LET keep == { j \in DOMAIN bst.keys : Contains(bst.keys[j], q) }
              IN  CapCounts(CountHits([ j \in keep |-> Range(bst.postings[j]) ]))
         ELSE {}
    ELSE LET grams == SortedStrings(KGrams(q, GRAM))
         IN  CapCounts(CountHits([ j \in DOMAIN grams |-> IndexGet(bst, grams[j]) ]))

MaxSentences == 3
CandidateLines == { << "a","b","a" >>, << "a","b","a","b" >>, << "b","a","b" >> }
CandidateQueries ==
    { << "a","b","a" >>, << "a","b","a","b" >>, << "b","a","b" >>, << "a","b","c" >>,
      << "a","b" >>, << "a" >>, << "c" >> }

CandidateInputs ==
    { [fn |-> "candidate_ids", query |-> q,
       sentences |-> LoadCorpus(<< [path |-> "a.txt", lines |-> ls] >>)] :
        q \in CandidateQueries, ls \in StringsOver(CandidateLines, 0, MaxSentences) }

InitCandidates ==
    /\ fn_in \in CandidateInputs
    /\ fn_out = NotApplied
    /\ EngineUnused

\* candidate_ids(query) on the index of KGramIndex.build(corpus)
CandidatesOnBuilt ==
    /\ fn_in.fn = "candidate_ids"
    /\ ~fn_out.done
    /\ fn_out' = [ done |-> TRUE,
                   val |-> [ built |-> CandidateIds(BstFromCorpus(fn_in.sentences, GRAM),
                                                    fn_in.query) ] ]
    /\ UNCHANGED <<fn_in, engine_vars, threads>>

\* candidate_ids(query) on an index whose bst is load_acx of the file
\* save_acx_from_bst wrote from the built BST
CandidatesOnLoaded ==
    /\ fn_in.fn = "candidate_ids"
    /\ fn_out.done
    /\ "loaded" \notin DOMAIN fn_out.val
    /\ fn_out' = [ done |-> TRUE,
                   val |-> [ built |-> fn_out.val.built,
                             loaded |-> CandidateIds(
                                 LoadAcx(SaveAcxFromBst(
                                     BstFromCorpus(fn_in.sentences, GRAM), GRAM)),
                                 fn_in.query) ] ]
    /\ UNCHANGED <<fn_in, engine_vars, threads>>

NextCandidates == CandidatesOnBuilt \/ CandidatesOnLoaded

SpecCandidates == InitCandidates /\ [][NextCandidates]_vars

\* candidate_ids has run on the built index
CandidatesDone == fn_in.fn = "candidate_ids" /\ fn_out.done

\* the number of distinct k-grams of the query that the sentence contains
GramHits(sid) ==
    Cardinality({ g \in KGrams(fn_in.query, GRAM) :
        \E i \in DOMAIN fn_in.sentences :
            /\ fn_in.sentences[i].id = sid
            /\ Contains(fn_in.sentences[i].normalized, g) })

\* the ids of the sentences that contain at least one k-gram of the query
GramMatching ==
    { sid \in { fn_in.sentences[i].id : i \in DOMAIN fn_in.sentences } : GramHits(sid) >= 1 }

\* the results computed so far, on the built and on the loaded index
CandidateResults == { fn_out.val[f] : f \in DOMAIN fn_out.val }

\* C24 as stated: for |Q| >= k, candidate_ids(Q) contains every sentence id
\* whose normalized text contains at least one k-gram of Q.
C24_EveryGramMatchRetained ==
    (CandidatesDone /\ Len(fn_in.query) >= GRAM) =>
        \A got \in CandidateResults : GramMatching \subseteq got

\* C24 with the cap: for |Q| >= k, candidate_ids(Q) is the set of all such
\* ids when they number at most MAX_CANDIDATES; otherwise it holds exactly
\* MAX_CANDIDATES of them, those containing the most k-grams of Q, ties
\* going to the smaller id.
C24_GramMatchesUpToCap ==
    (CandidatesDone /\ Len(fn_in.query) >= GRAM) =>
        \A got \in CandidateResults :
            IF Cardinality(GramMatching) <= MAX_CANDIDATES
            THEN got = GramMatching
            ELSE /\ got \subseteq GramMatching
                 /\ Cardinality(got) = MAX_CANDIDATES
                 /\ \A x \in got, y \in GramMatching \ got :
                        \/ GramHits(x) > GramHits(y)
                        \/ GramHits(x) = GramHits(y) /\ x < y

\* more sentences than the cap match, and one with more hits has a larger
\* id than one with fewer
C24_Witness ==
    /\ CandidatesDone
    /\ Len(fn_in.query) >= GRAM
    /\ Cardinality(GramMatching) > MAX_CANDIDATES
    /\ \E x \in fn_out.val.built, y \in GramMatching \ fn_out.val.built :
          x > y /\ GramHits(x) > GramHits(y)

\* the union of the postings of the keys of the built index that contain
\* the query
KeysContainingUnion ==
    LET bst == BstFromCorpus(fn_in.sentences, GRAM)
    IN  UNION { Range(bst.postings[j]) :
                  j \in { j \in DOMAIN bst.keys : Contains(bst.keys[j], fn_in.query) } }

\* C25: for 0 < |Q| < k, candidate_ids(Q) is the union of the postings of
\* the index keys that contain Q (at most MAX_CANDIDATES of it), and it is
\* the same set on the BST of build() and on the ACX index loaded from the
\* file written from that BST.
C25_ShortQuerySameOnAcx ==
    (/\ CandidatesDone
     /\ Len(fn_in.query) > 0 /\ Len(fn_in.query) < GRAM
     /\ "loaded" \in DOMAIN fn_out.val)
        => /\ fn_out.val.built \subseteq KeysContainingUnion
           /\ Cardinality(fn_out.val.built)
                 = Min({ MAX_CANDIDATES, Cardinality(KeysContainingUnion) })
           /\ fn_out.val.loaded = fn_out.val.built


---------------------------------------------------------------------------
(* The BST object (autocomplete/backend/bst.py): [root, frozen, keys,      *)
(* postings].  A node is [key, values, left, right]; a child, like the     *)
(* root, is << >> (None) or << node >>.  keys and postings are << >> while *)
(* they are None.                                                          *)

\* BST()
NewBst == [ root |-> None, frozen |-> FALSE, keys |-> << >>, postings |-> << >> ]

\* _ins(node, key, sid) of BST.insert
RECURSIVE TreeInsert(_, _, _)
TreeInsert(node, key, sid) ==
    IF node = None
    THEN << [ key |-> key, values |-> {sid}, left |-> None, right |-> None ] >>
    ELSE IF key = node[1].key
    THEN << [ node[1] EXCEPT !.values = @ \cup {sid} ] >>
    ELSE IF StrLess(key, node[1].key)
    THEN << [ node[1] EXCEPT !.left = TreeInsert(@, key, sid) ] >>
    ELSE << [ node[1] EXCEPT !.right = TreeInsert(@, key, sid) ] >>

\* variant: insert without the frozen check
BstInsertUnchecked(bst, key, sid) ==
    [ raised |-> "", bst |-> [ bst EXCEPT !.root = TreeInsert(@, key, sid) ] ]

\* BST.insert(key, sentence_id): [raised, bst]
BstInsert(bst, key, sid) ==
    IF bst.frozen THEN [ raised |-> "RuntimeError", bst |-> bst ]
    ELSE [ raised |-> "", bst |-> [ bst EXCEPT !.root = TreeInsert(@, key, sid) ] ]

\* the while loop of BST.get on the pointer form
RECURSIVE TreeGet(_, _)
TreeGet(node, key) ==
    IF node = None THEN {}
    ELSE IF key = node[1].key THEN node[1].values
    ELSE IF StrLess(key, node[1].key) THEN TreeGet(node[1].left, key)
    ELSE TreeGet(node[1].right, key)

\* BST.get(key) on either form
BstGetAny(bst, key) ==
    IF bst.frozen THEN BstGet([ keys |-> bst.keys, postings |-> bst.postings ], key)
    ELSE TreeGet(bst.root, key)

\* _inorder(n) of BST.freeze: the (key, values) items, left to right
RECURSIVE Inorder(_)
Inorder(node) ==
    IF node = None THEN << >>
    ELSE Inorder(node[1].left) \o << << node[1].key, node[1].values >> >>
             \o Inorder(node[1].right)

\* items.sort(key=lambda kv: kv[0]) for items with distinct keys
SortItemsByKey(items) ==
    LET keys == SortedStrings({ items[i][1] : i \in DOMAIN items })
    IN  [ j \in DOMAIN keys |-> items[CHOOSE i \in DOMAIN items : items[i][1] = keys[j]] ]

\* BST.freeze()
BstFreeze(bst) ==
    IF bst.frozen THEN bst
    ELSE LET Frozen(items) ==
                 [ root |-> None, frozen |-> TRUE,
                   keys |-> [ j \in DOMAIN items |-> items[j][1] ],
                   postings |-> [ j \in DOMAIN items |-> SortedInts(items[j][2]) ] ]
         IN  Frozen(SortItemsByKey(Inorder(bst.root)))

\* BST.from_pairs(pairs), pairs a sequence of <<key, ids>> with distinct keys
BstFromPairs(pairs) ==
    LET Frozen(items) ==
            [ root |-> None, frozen |-> TRUE,
              keys |-> [ j \in DOMAIN items |-> items[j][1] ],
              postings |-> [ j \in DOMAIN items |-> SortedInts(items[j][2]) ] ]
    IN  Frozen(SortItemsByKey(pairs))

\* the state __getstate__ returns, on the object it has frozen
BstGetState(bst) ==
    [ _frozen |-> TRUE, _keys |-> BstFreeze(bst).keys, _postings |-> BstFreeze(bst).postings ]

\* __setstate__(state) on the object pickle creates
BstSetState(state) ==
    [ root |-> None,
      frozen |-> IF "_frozen" \in DOMAIN state THEN state._frozen ELSE FALSE,
      keys |-> IF "_keys" \in DOMAIN state THEN state._keys ELSE << >>,
      postings |-> IF "_postings" \in DOMAIN state THEN state._postings ELSE << >> ]

BstKeyPool == { << "a" >>, << "b" >>, << "c" >> }
BstIds == { 0, 1 }

\* fn_out is [bst, last, before, pickled]: the object, the last call with
\* its outcome, what get returned per key when the object was frozen, and
\* the pickled state
InitBst ==
    /\ fn_in = [fn |-> "bst"]
    /\ fn_out \in
         { [ bst |-> b, last |-> [op |-> "new", raised |-> ""],
             before |-> None, pickled |-> None ] :
             b \in { NewBst } \cup
                   { BstFromPairs(<< << k1, {0} >>, << k2, ids >> >>) :
                       <<k1, k2, ids>> \in
                           { t \in BstKeyPool \X BstKeyPool \X { {1}, {0, 1} } :
                               t[1] # t[2] } } }
    /\ EngineUnused

\* what get returns for every key of the pool
GetTable(bst) == [ k \in BstKeyPool |-> BstGetAny(bst, k) ]

\* bst.insert(key, sid)
InsertKey(key, sid) ==
    /\ fn_in.fn = "bst"
    /\ LET r == BstInsert(fn_out.bst, key, sid)
       IN  fn_out' = [ fn_out EXCEPT !.bst = r.bst,
                         !.last = [op |-> "insert", raised |-> r.raised] ]
    /\ UNCHANGED <<fn_in, engine_vars, threads>>

\* bst.get(key)
GetKey(key) ==
    /\ fn_in.fn = "bst"
    /\ fn_out' = [ fn_out EXCEPT
                     !.last = [op |-> "get", raised |-> "", key |-> key,
                               ids |-> BstGetAny(fn_out.bst, key)] ]
    /\ UNCHANGED <<fn_in, engine_vars, threads>>

\* bst.freeze()
Freeze ==
    /\ fn_in.fn = "bst"
    /\ fn_out' = [ fn_out EXCEPT
                     !.bst = BstFreeze(@),
                     !.last = [op |-> "freeze", raised |-> ""],
                     !.before = IF fn_out.bst.frozen THEN @
                                ELSE << GetTable(fn_out.bst) >> ]
    /\ UNCHANGED <<fn_in, engine_vars, threads>>

\* pickle.dumps(bst): __getstate__ freezes the object and returns its state
PickleDump ==
    /\ fn_in.fn = "bst"
    /\ fn_out' = [ fn_out EXCEPT
                     !.bst = BstFreeze(@),
                     !.last = [op |-> "dumps", raised |-> ""],
                     !.before = IF fn_out.bst.frozen THEN @
                                ELSE << GetTable(fn_out.bst) >>,
                     !.pickled = << BstGetState(fn_out.bst) >> ]
    /\ UNCHANGED <<fn_in, engine_vars, threads>>

\* bst = pickle.loads(data): the object is replaced by the unpickled one
PickleLoad ==
    /\ fn_in.fn = "bst"
    /\ fn_out.pickled # None
    /\ fn_out.bst.frozen
    /\ fn_out' = [ fn_out EXCEPT
                     !.bst = BstSetState(fn_out.pickled[1]),
                     !.last = [op |-> "loads", raised |-> ""] ]
    /\ UNCHANGED <<fn_in, engine_vars, threads>>

NextBst ==
    \/ \E k \in BstKeyPool, sid \in BstIds : InsertKey(k, sid)
    \/ \E k \in BstKeyPool : GetKey(k)
    \/ Freeze
    \/ PickleDump
    \/ PickleLoad

SpecBst == InitBst /\ [][NextBst]_vars

\* a step from a frozen BST leaves it frozen with the same keys and
\* postings, and an insert made on it has raised RuntimeError
FrozenStep ==
    (fn_in.fn = "bst" /\ fn_out.bst.frozen) =>
        /\ fn_out'.bst.frozen
        /\ fn_out'.bst.keys = fn_out.bst.keys
        /\ fn_out'.bst.postings = fn_out.bst.postings
        /\ fn_out'.last.op = "insert" => fn_out'.last.raised = "RuntimeError"

\* get answers as it did when the object was frozen
GetAsBeforeFreeze ==
    (fn_in.fn = "bst" /\ fn_out.bst.frozen /\ fn_out.before # None) =>
        GetTable(fn_out.bst) = fn_out.before[1]

\* C26: freezing a BST is terminal: once frozen (by freeze(), from_pairs()
\* or pickling) it stays frozen, every later insert() raises RuntimeError
\* and leaves keys and postings unchanged, and get(key) returns for every
\* key the id set it returned before the freeze.
C26_FreezeIsTerminal == [][FrozenStep]_vars /\ []GetAsBeforeFreeze

\* an insert was refused on a BST frozen with two keys, one of them with
\* two ids
C26_Witness ==
    /\ fn_in.fn = "bst"
    /\ fn_out.bst.frozen
    /\ fn_out.before # None
    /\ fn_out.last = [op |-> "insert", raised |-> "RuntimeError"]
    /\ Len(fn_out.bst.keys) >= 2
    /\ \E j \in DOMAIN fn_out.bst.postings : Len(fn_out.bst.postings[j]) = 2


---------------------------------------------------------------------------
(* The engine's life cycle under Spec.                                     *)

\* the step was a build() or load() that returned
SucceededStep ==
    last_call'.op \in { "build", "load" } /\ last_call'.raised = ""

\* a step of the engine: Engine() and shutdown() leave no index and no
\* store, whether or not close raised; an engine without index gets one only
\* by a build() or load() that returns; complete() on an engine without
\* index raises RuntimeError
LifeCycleStep ==
    /\ last_call'.op \in { "new", "shutdown" } =>
           self_index' = None /\ self_store' = None
    /\ (self_index = None /\ ~SucceededStep) => self_index' = None
    /\ (self_index = None /\ last_call'.op = "complete") =>
           last_call'.raised = "RuntimeError"

\* C27: complete() raises RuntimeError in every state where no build() or
\* load() has succeeded since construction or since the last shutdown();
\* shutdown() always leaves the engine with no index and no store, even
\* when closing the store raises, and may be repeated.
C27_NoIndexUntilBuildOrLoad ==
    /\ self_index = None /\ self_store = None
    /\ [][LifeCycleStep]_vars

\* a shutdown whose close raised has left no index and no store
C27_Witness ==
    /\ last_call.op = "shutdown"
    /\ last_call.raised = "Exception"
    /\ self_index = None
    /\ self_store = None
    /\ self_in_memory_corpus # None


---------------------------------------------------------------------------
(* Calls that raise.  The engine is run together with the config module:   *)
(* fn_out is [cfg], the values of TEXT_UNIT, WINDOW_SIZE and WINDOW_STEP   *)
(* in backend.config.  Build and Load are the calls without overrides,     *)
(* which leave the config module alone.                                    *)

InitRaising ==
    /\ fn_in = [fn |-> "raising"]
    /\ fn_out = [ cfg |-> [ TEXT_UNIT |-> TEXT_UNIT, WINDOW_SIZE |-> WINDOW_SIZE,
                            WINDOW_STEP |-> WINDOW_STEP ] ]
    /\ corpus_files \in { FilesA, FilesC }
    /\ SEARCH_MODE = "substring"
    /\ disk = [ acx |-> None, cdb |-> None ]
    /\ self_index = None
    /\ self_store = None
    /\ self_in_memory_corpus = None
    /\ last_call = NoCall
    /\ threads = << >>

\* Engine.build([], unit=..., window_size=..., window_step=...): the
\* overrides are written into the config module, then the empty roots raise
BuildEmptyRoots(unit, window_size, window_step) ==
    /\ fn_in.fn = "raising"
    /\ fn_out' = [ cfg |-> [ TEXT_UNIT |-> IF unit # None THEN unit[1]
                                           ELSE fn_out.cfg.TEXT_UNIT,
                             WINDOW_SIZE |-> IF window_size # None THEN window_size[1]
                                             ELSE fn_out.cfg.WINDOW_SIZE,
                             WINDOW_STEP |-> IF window_step # None THEN window_step[1]
                                             ELSE fn_out.cfg.WINDOW_STEP ] ]
    /\ last_call' = [ op |-> "build", raised |-> "ValueError" ]
    /\ UNCHANGED <<fn_in, corpus_files, SEARCH_MODE, disk, self_index, self_store,
                   self_in_memory_corpus, threads>>

NextRaising ==
    \/ \E u \in Units, ws \in WindowSizes, st \in WindowSteps : BuildEmptyRoots(u, ws, st)
    \/ \E r \in BOOLEAN, dsn \in Dsns, a \in BOOLEAN : fn_in.fn = "raising" /\ Build(r, dsn, a)
    \/ \E a \in BOOLEAN, dsn \in Dsns \cup { "" } : fn_in.fn = "raising" /\ Load(a, dsn)
    \/ \E close_raises \in BOOLEAN : fn_in.fn = "raising" /\ Shutdown(close_raises)

SpecRaising == InitRaising /\ [][NextRaising]_vars

\* the step was a build() or load() that raised
RaisingStep ==
    last_call'.op \in { "build", "load" } /\ last_call'.raised # ""

\* a raising build() or load() leaves index and store as they were
RaisingKeepsIndexAndStore ==
    [][RaisingStep => (self_index' = self_index /\ self_store' = self_store)]_vars

\* C28: a build() or load() call that raises leaves the engine's index and
\* store and the global configuration (TEXT_UNIT, WINDOW_SIZE, WINDOW_STEP)
\* exactly as they were before the call.
C28_RaisingCallChangesNothing ==
    [][RaisingStep =>
          /\ self_index' = self_index
          /\ self_store' = self_store
          /\ fn_out'.cfg = fn_out.cfg]_vars


---------------------------------------------------------------------------
(* Rebuilds: build() calls on one engine while the files under the roots   *)
(* are replaced between the calls.                                         *)

\* the files under the roots are replaced by another corpus
ReplaceCorpusFiles(files) ==
    /\ files # corpus_files
    /\ corpus_files' = files
    /\ last_call' = [ op |-> "replace_files", raised |-> "" ]
    /\ UNCHANGED <<fn_vars, SEARCH_MODE, disk, self_index, self_store,
                   self_in_memory_corpus, threads>>

NextRebuild ==
    \/ \E files \in Corpora : ReplaceCorpusFiles(files)
    \/ \E r \in BOOLEAN, dsn \in Dsns, a \in BOOLEAN : Build(r, dsn, a)

SpecRebuild == Init /\ [][NextRebuild]_vars

\* the last call was a build() that ingested the files under the roots
IngestedBuild == last_call.op = "build" /\ last_call.raised # "ValueError"

\* a build() that returned has attached a store with exactly the sentences
\* it ingested and an index built from them
ReturnedBuildHoldsLatest ==
    (last_call.op = "build" /\ last_call.raised = "") =>
        /\ self_store = << MemoryStore(<< LoadCorpus(corpus_files) >>) >>
        /\ self_index[1].bst = BstFromCorpus(LoadCorpus(corpus_files), GRAM)

\* a build() over a path with a valid CDB file has left the file of an
\* earlier corpus in place
StaleCdbAfterBuild ==
    /\ IngestedBuild
    /\ disk.cdb # None
    /\ disk.cdb # << CdbBuildFromCorpus(LoadCorpus(corpus_files)) >>

\* C29: after any sequence of build() calls (including a rebuild over a db
\* path that already holds a valid CDB file from an earlier corpus), the
\* store attached to the engine holds exactly the sentences of the corpus
\* ingested by the most recent build().
C29_StoreHoldsLatestCorpus ==
    IngestedBuild =>
        /\ self_store # None
        /\ self_store = << MemoryStore(<< LoadCorpus(corpus_files) >>) >>


---------------------------------------------------------------------------
(* Prefix-mode scoring under Spec.                                         *)

\* the row of a sentence when the raw query is compared with the original
\* text of the matched span, original[norm_to_orig[start] ..
\* norm_to_orig[end-1]+1); << >> when the sentence gives none
MappedSpanHit(s, query, aug) ==
    LET Row(start, end, sc) ==
            IF sc = << >> THEN << >>
            ELSE << [ score |-> sc[1],
                      offset |-> << start, end >>,
                      source_text |-> s.path,
                      completed_sentence |-> s.original,
                      query_original |-> query,
                      query_corrected |-> aug.corrected ] >>
        OnSpan(start, end, o) ==
            Row(start, end, ScorePrefix1Edit(query, Slice(s.original, o[1], o[2])))
        Guarded(start, end, span) ==
            IF ~OnlyWordChars(Slice(s.original, span[1], span[2])) THEN << >>
            ELSE OnSpan(start, end,
                        OrigSpanFromNorm(s.original, s.norm_to_orig, start, end))
        WithWord(start, end, m2) ==
            IF m2 = << >> THEN << >>
            ELSE Guarded(start, end,
                         OrigSpanFromNorm(s.original, s.norm_to_orig,
                                          start + m2[1], start + m2[2]))
        LastWord(toks, start, sub) ==
            IF aug.trailing_space THEN PrefixWordSearch(<< >>, sub)
            ELSE IF Len(toks) = 1
                 THEN << 0, WordEndFrom(s.normalized, start) - start >>
            ELSE PrefixWordSearch(toks[Len(toks)], sub)
        Matched(toks, m) ==
            IF m = << >> THEN << >>
            ELSE WithWord(m[1], m[2],
                           LastWord(toks, m[1], Slice(s.normalized, m[1], m[2])))
        Hit(q_corr_norm) ==
            Matched(Tokens(q_corr_norm),
                    PatternSearch(q_corr_norm, aug.trailing_space, s.normalized))
    IN  Hit(NormalizeOnly(aug.corrected))

\* the rows of the candidates scored on the mapped span
MappedSpanRows(query, index, store) ==
    LET Rows(aug, got) ==
            Flatten([ i \in DOMAIN got.sents |-> MappedSpanHit(got.sents[i], query, aug) ])
        With(aug) == Rows(aug, IterSentences(PrefixCandidates(query, index, aug), store))
    IN  With(AugmentQuery(query, index))

\* a prefix-mode complete() call returned
PrefixCompleted == Completed /\ SEARCH_MODE = "prefix"

\* C30: in prefix mode every candidate sentence whose normalized text
\* matches the corrected query's word-prefix pattern, and whose matched last
\* word maps to only word characters in the original, is returned, scored by
\* comparing the raw query with the original text of the matched span,
\* original[norm_to_orig[start] .. norm_to_orig[end-1]+1).
C30_ScoredOnMappedSpan ==
    PrefixCompleted =>
        FoundRows(last_call.query, self_index[1], self_store[1], SEARCH_MODE)
            = MappedSpanRows(last_call.query, self_index[1], self_store[1])

\* the same, for corpora whose lines normalize to themselves, so that
\* normalized and original offsets coincide
MappedSpanOnNormalLines ==
    (PrefixCompleted /\ corpus_files \in { FilesA, FilesD }) =>
        FoundRows(last_call.query, self_index[1], self_store[1], SEARCH_MODE)
            = MappedSpanRows(last_call.query, self_index[1], self_store[1])

=============================================================================
